---- MODULE Spec2Model ----
(***************************************************************************)
(* The slot-capacity booking engine of backend/main.py: the seva and       *)
(* schedule-slot catalog, the bookings collection, the create_booking      *)
(* handler as a sequence of awaited store operations (each await is a      *)
(* point where other requests may run), and the staff status update.       *)
(***************************************************************************)
EXTENDS Integers, Sequences, FiniteSets, TLC

(* ---------------------------------------------------------------- bounds *)
NumReqs == 2        \* concurrent create_booking requests
StressReqs == 3     \* requests of the concurrency stress test
MaxQuota == 2       \* online_quota ranges over 1..MaxQuota
MaxPersons == 2     \* max_persons_per_ticket of the larger seva
MaxBookings == 3    \* cap on the number of stored bookings
MaxStays == 2       \* cap on the number of stored accommodation bookings
MaxDonations == 1   \* cap on the number of stored donations
MaxDevotees == 3    \* cap on the number of stored devotee records

(* ------------------------------------------------------------- universes *)
SevaIds == {"sevaA", "sevaB"}     \* the sevas of the catalog
SlotIds == {"slot1", "slot2"}     \* the schedule slots of the catalog
AbsentSeva == "sevaX"             \* an id no seva document carries
AbsentSlot == "slotX"             \* an id no slot document carries
\* the ids str(uuid.uuid4()) gives the documents the create handlers insert
NewSeva == "sevaN"
NewSlot == "slotN"
NewProfile == "profileN"
Dates == {"d1", "d2"}
DevoteeIds == {"dev1"}
Prices == {100, 500}
Reqs == 1..NumReqs
BookingIds == 1..MaxBookings
PersonInputs == 0..(MaxPersons + 1)

\* Python's None, and the result of find_one when no document matches.
None == [none |-> TRUE]

valid_statuses == {"Pending", "Confirmed", "Completed", "Cancelled", "NoShow"}
\* BookingStatusUpdate.status is any string; "Refunded" stands for the rest.
StatusInputs == valid_statuses \cup {"Refunded"}

\* HTTPBearer credentials: absent, or a bearer token that decodes to a payload
\* or is expired.
DevoteeTokens == [kind : {"valid"}, role : {"devotee"}, sub : DevoteeIds]
StaffTokens == [kind : {"valid"}, role : {"EO"}, sub : {"staff1"}]
ExpiredTokens == [kind : {"expired"}, role : {"devotee"}, sub : DevoteeIds]
InvalidTokens == [kind : {"invalid"}, role : {"devotee", "EO"}, sub : {"dev1"}]
Credentials == {None} \cup DevoteeTokens \cup StaffTokens \cup ExpiredTokens

\* The inputs a specification draws its requests from.
BookingCreate(seva_ids, slot_ids, dates, persons) ==
    [seva_id : seva_ids, slot_id : slot_ids, for_date : dates,
     number_of_persons : persons]

\* admissions racing on one slot, with staff cancelling and re-confirming
RaceInputs ==
    [data |-> BookingCreate({"sevaA"}, {"slot1"}, Dates, {1}),
     credentials |-> DevoteeTokens,
     statuses |-> {"Cancelled", "Confirmed"},
     staff |-> StaffTokens]

\* every kind of input of create_booking
AdmitInputs ==
    [data |-> BookingCreate({"sevaA", AbsentSeva}, {"slot1", AbsentSlot}, {"d1"},
                            PersonInputs),
     credentials |-> Credentials,
     statuses |-> {},
     staff |-> {}]

\* admissions and cancellations, one handler at a time
SerialInputs == RaceInputs

\* every kind of input of update_booking_status
StatusUpdateInputs ==
    [data |-> BookingCreate({"sevaA"}, {"slot1"}, {"d1"}, {1}),
     credentials |-> DevoteeTokens,
     statuses |-> StatusInputs,
     staff |-> Credentials]

\* Optional values of the update models
Some(v) == [some |-> v]

\* the modelled fields of SevaUpdate and SlotUpdate; the fields left out are
\* Optional in the same way and go through the same code
SevaUpdate(names, prices, persons, notes, flags) ==
    [name_english : names, name_telugu : {None}, base_price : prices,
     is_paroksha_available : {None}, max_persons_per_ticket : persons,
     special_instructions : notes, active_flag : flags]

SlotUpdate(seva_ids, dates, times, quotas) ==
    [seva_id : seva_ids, date : dates, start_time : times, end_time : {None},
     online_quota : quotas]

DayProfileUpdate(names, flags) ==
    [name : names, description : {None}, is_special_day_flag : flags]

ProfileIds == {"profile1"}
AbsentProfile == "profileX"       \* an id no day profile document carries
AccIds == {"acc1"}
AbsentAcc == "accX"               \* an id no accommodation document carries

\* ISO dates of the request, as year, month and day; Feb30 is no calendar day
Feb28 == [y |-> 2024, m |-> 2, d |-> 28]
Feb29 == [y |-> 2024, m |-> 2, d |-> 29]
Feb30 == [y |-> 2024, m |-> 2, d |-> 30]
Mar01 == [y |-> 2024, m |-> 3, d |-> 1]

AccommodationBookingCreate(acc_ids, check_ins, check_outs, rooms) ==
    [accommodation_id : acc_ids, check_in_date : check_ins,
     check_out_date : check_outs, num_rooms : rooms, num_guests : {1}]

AccommodationUpdate(prices) ==
    [name : {None}, price_per_day : prices, total_rooms : {None}]

\* every kind of input of create_accommodation_booking, and staff changing
\* the price
LodgingInputs ==
    [stays |-> AccommodationBookingCreate({"acc1", AbsentAcc}, {Feb28, Feb29},
                                          {Feb28, Feb29, Feb30, Mar01}, {1, 2}),
     credentials |-> Credentials,
     acc_ids |-> AccIds,
     acc_updates |-> AccommodationUpdate({None, Some(100)}),
     staff |-> StaffTokens]

\* every kind of catalog update and delete, between admissions
CatalogInputs ==
    [data |-> BookingCreate({"sevaA"}, {"slot1"}, {"d1"}, {1}),
     credentials |-> DevoteeTokens,
     staff |-> StaffTokens,
     seva_ids |-> {"sevaA", AbsentSeva},
     seva_updates |-> SevaUpdate({None, Some("Renamed")}, {None, Some(100)},
                                 {None}, {None}, {None}),
     slot_ids |-> {"slot1", AbsentSlot},
     slot_updates |-> SlotUpdate({None}, {None}, {None, Some("08:00")},
                                 {None, Some(2)}),
     profile_ids |-> {"profile1", AbsentProfile},
     profile_updates |-> DayProfileUpdate({None, Some("Weekday")}, {None}),
     acc_ids |-> AccIds,
     acc_updates |-> AccommodationUpdate({None, Some(100)})]

\* admissions, cancellations and reads, with the catalog changing under the
\* stored bookings
HistoryInputs ==
    [data |-> BookingCreate({"sevaA"}, {"slot1"}, {"d1"}, {1}),
     credentials |-> DevoteeTokens,
     statuses |-> {"Cancelled"},
     staff |-> StaffTokens,
     seva_ids |-> {"sevaA"},
     seva_updates |-> SevaUpdate({Some("Renamed")}, {Some(100)}, {None}, {None}, {None}),
     slot_ids |-> {"slot1"},
     slot_updates |-> SlotUpdate({None}, {None}, {Some("08:00")}, {None}),
     dates |-> {"d1"},
     booking_ids |-> BookingIds]

\* staff changing the price of the seva being booked
PriceInputs ==
    [seva_ids |-> {"sevaA"},
     seva_updates |-> SevaUpdate({None}, {Some(p) : p \in Prices}, {None}, {None}, {None}),
     staff |-> StaffTokens]

\* availability queries between serial admissions and cancellations
AvailableInputs ==
    [data |-> BookingCreate({"sevaA"}, SlotIds, {"d1"}, {1}),
     credentials |-> DevoteeTokens,
     statuses |-> {"Cancelled"},
     staff |-> StaffTokens,
     seva_ids |-> SevaIds,
     dates |-> Dates]

\* availability queries racing admissions on the two slots of one seva
QueryInputs ==
    [data |-> BookingCreate({"sevaA"}, SlotIds, {"d1"}, {1}),
     credentials |-> DevoteeTokens,
     seva_ids |-> {"sevaA"},
     dates |-> {"d1"}]

\* the public listing and get-by-id, with staff switching sevas on and off
ListingInputs ==
    [active_only |-> BOOLEAN,
     paroksha |-> {None, Some(TRUE), Some(FALSE)},
     seva_ids |-> SevaIds \cup {AbsentSeva},
     seva_updates |-> SevaUpdate({None}, {None}, {None}, {None},
                                 {None, Some(FALSE), Some(TRUE)}),
     staff |-> StaffTokens]

\* two devotees booking, and ticket lookups with every kind
\* of parameter: absent, empty, matching and matching nothing
TicketInputs ==
    [data |-> BookingCreate({"sevaA"}, {"slot1"}, {"d1"}, {1}),
     credentials |-> [kind : {"valid"}, role : {"devotee"}, sub : {"dev1", "dev2"}],
     booking_numbers |-> {None, Some(""), Some("SPJR-1"), Some("SPJR-0")},
     mobiles |-> {None, Some(""), Some("m1"), Some("m0")}]

\* every kind of credentials on a devotee-only and on a staff-only operation
GateInputs ==
    [data |-> BookingCreate({"sevaA"}, {"slot1"}, {"d1"}, {1}),
     credentials |-> Credentials \cup InvalidTokens,
     statuses |-> {"Cancelled", "Confirmed"},
     staff |-> Credentials \cup InvalidTokens]

SevaCreate ==
    [name_english : {"Kalyanam"}, name_telugu : {"Kalyanam-te"}, base_price : {500},
     is_paroksha_available : {FALSE}, max_persons_per_ticket : {2},
     special_instructions : {""}, active_flag : BOOLEAN]

SlotCreate ==
    [seva_id : {"sevaA"}, date : {None, Some("d1")}, start_time : {"08:00"},
     end_time : {"09:00"}, online_quota : {1}]

DayProfileCreate ==
    [name : {"Pournami"}, description : {""}, is_special_day_flag : {TRUE}]

\* seeding and every catalog write, with every kind of credentials
SeedInputs ==
    [staff |-> {None} \cup DevoteeTokens \cup ExpiredTokens
                \cup [kind : {"valid"}, role : {"EO", "Priest"}, sub : {"staff1"}],
     seva_ids |-> {"sevaA"},
     seva_updates |-> SevaUpdate({None}, {Some(100)}, {None}, {None}, {None}),
     seva_creates |-> SevaCreate,
     slot_ids |-> {"slot1"},
     slot_updates |-> SlotUpdate({None}, {None}, {None}, {Some(2)}),
     slot_creates |-> SlotCreate,
     profile_ids |-> {"profile1"},
     profile_updates |-> DayProfileUpdate({Some("Weekday")}, {None}),
     profile_creates |-> DayProfileCreate]

\* donation amounts around every boundary of the wording: the teens, the tens,
\* the hundreds, and the thousand, lakh and crore thresholds
Amounts ==
    (0..121) \cup {999, 1000, 1001, 1500, 9999, 10000, 99999, 100000, 100001, 1234567,
                   9999999, 10000000, 10000001, 123456789, 1000000000, 1010000000}

DonationCreate ==
    [donation_type : {"e-Hundi"}, amount : Amounts, donor_name : {"Donor"},
     is_anonymous : {FALSE}]

DonationInputs ==
    [donations |-> DonationCreate,
     credentials |-> {None},
     donation_ids |-> 1..(MaxDonations + 1)]

\* admissions with every outcome, racing cancellations and availability queries
BusyInputs ==
    [data |-> BookingCreate({"sevaA", AbsentSeva}, {"slot1"}, {"d1"}, {0, 1}),
     credentials |-> DevoteeTokens,
     statuses |-> {"Cancelled"},
     staff |-> StaffTokens,
     seva_ids |-> {"sevaA"},
     dates |-> {"d1"}]

VARIABLES
    sevas,           \* db.sevas: seva id -> document
    schedule_slots,  \* db.schedule_slots: slot id -> document
    bookings,        \* db.bookings: the documents in insertion order
    devotees,        \* db.devotees: devotee id -> document
    day_profiles,    \* db.day_profiles: profile id -> document
    req,             \* the create_booking requests: position, locals, response
    adm,             \* the update_booking_status request: position, locals, response
    cat,             \* the catalog administration request: position, locals, response
    avl,             \* the get_available_slots request: position, locals, response
    rdr,             \* the get_booking request: position, locals, response
    accommodations,          \* db.accommodations: accommodation id -> document
    accommodation_bookings,  \* db.accommodation_bookings, in insertion order
    acc,             \* the create_accommodation_booking request
    lst,             \* the list_sevas / get_seva request: position, locals, response
    tkt,             \* the lookup_ticket request: position, locals, response
    user_accounts,   \* db.user_accounts: the usernames of the staff accounts
    reg,             \* the devotee_register requests: position, locals, response
    sd,              \* the seed_data request: position, response
    donations,       \* db.donations: the documents in insertion order
    rcp              \* the create_donation / get_donation_receipt request

\* the public read requests, and the accommodation side of the store
readers == <<avl, rdr, lst, tkt>>
lodging == <<accommodations, accommodation_bookings, acc>>
\* the accounts side of the store, and the donations side
accounts == <<user_accounts, reg, sd>>
giving == <<donations, rcp>>

vars ==
    <<sevas, schedule_slots, bookings, devotees, day_profiles, req, adm, cat, readers,
      lodging, accounts, giving>>

(* ------------------------------------------------------- store operations *)
\* collection.find_one({"id": id})
find_one(coll, id) == IF id \in DOMAIN coll THEN coll[id] ELSE None

\* A variant without the status condition: cancelled bookings keep their place.
booked_filter_any_status(b, slot_id, for_date) ==
    /\ b.slot_id = slot_id
    /\ b.for_date = for_date

\* the filter {"slot_id": .., "for_date": .., "status": {"$nin": ["Cancelled"]}}
booked_filter(b, slot_id, for_date) ==
    /\ b.slot_id = slot_id
    /\ b.for_date = for_date
    /\ b.status \notin {"Cancelled"}

\* db.bookings.count_documents(filter)
count_documents(bks, slot_id, for_date) ==
    Cardinality({i \in DOMAIN bks : booked_filter(bks[i], slot_id, for_date)})

\* db.bookings.insert_one(booking)
insert_one(bks, booking) == Append(bks, booking)

\* A variant that treats Cancelled and Completed as terminal.
update_one_status_terminal(bks, booking_id, status) ==
    [i \in DOMAIN bks |->
        IF bks[i].id = booking_id /\ bks[i].status \notin {"Cancelled", "Completed"}
        THEN [bks[i] EXCEPT !.status = status] ELSE bks[i]]

\* A variant that removes a booking from the collection when it is cancelled.
update_one_status_archiving(bks, booking_id, status) ==
    IF status = "Cancelled"
        THEN SelectSeq(bks, LAMBDA b : b.id # booking_id)
    ELSE [i \in DOMAIN bks |->
            IF bks[i].id = booking_id THEN [bks[i] EXCEPT !.status = status] ELSE bks[i]]

\* A variant that marks the payment of a cancelled booking as refunded.
update_one_status_refunding(bks, booking_id, status) ==
    [i \in DOMAIN bks |->
        IF bks[i].id = booking_id
            THEN [bks[i] EXCEPT !.status = status,
                                !.payment_status = IF status = "Cancelled" THEN "Refunded"
                                                   ELSE @]
        ELSE bks[i]]

\* db.bookings.update_one({"id": booking_id}, {"$set": {"status": status}})
update_one_status(bks, booking_id, status) ==
    [i \in DOMAIN bks |->
        IF bks[i].id = booking_id THEN [bks[i] EXCEPT !.status = status] ELSE bks[i]]

\* db.bookings.find_one({"id": booking_id})
find_booking(bks, booking_id) ==
    IF \E i \in DOMAIN bks : bks[i].id = booking_id
    THEN bks[CHOOSE i \in DOMAIN bks : bks[i].id = booking_id]
    ELSE None

(* --------------------------------------------------------- identity gate *)
HTTPException(code, detail) == [status_code |-> code, detail |-> detail]
Ok(body) == [status_code |-> 200, body |-> body]

\* decode_token raises for an expired or unverifiable token; every exception
\* raised inside the try block, the 403 included, reaches an except clause.
get_current_devotee(credentials) ==
    IF credentials = None THEN HTTPException(401, "Not authenticated")
    ELSE IF credentials.kind = "expired" THEN HTTPException(401, "Token expired")
    ELSE IF credentials.kind # "valid" THEN HTTPException(401, "Invalid token")
    ELSE IF credentials.role # "devotee" THEN HTTPException(401, "Invalid token")
    ELSE Ok([sub |-> credentials.sub, role |-> credentials.role])

get_current_admin(credentials) ==
    IF credentials = None THEN HTTPException(401, "Not authenticated")
    ELSE IF credentials.kind = "expired" THEN HTTPException(401, "Token expired")
    ELSE IF credentials.kind # "valid" THEN HTTPException(401, "Invalid token")
    ELSE IF credentials.role \notin {"EO", "Clerk", "Cashier", "Priest"}
        THEN HTTPException(401, "Invalid token")
    ELSE Ok([sub |-> credentials.sub, role |-> credentials.role])

(* ---------------------------------------------------------- create_booking *)
SevaNotFound == HTTPException(404, "Seva not found")
SlotNotFound == HTTPException(404, "Slot not found")
\* the detail carries the allowed range, 1-max_persons_per_ticket
PersonsOutOfRange(seva) ==
    [status_code |-> 400, detail |-> "Number of persons must be 1-",
     max |-> seva.max_persons_per_ticket]
NoSlotsAvailable == HTTPException(400, "No slots available")
InternalServerError == HTTPException(500, "Internal Server Error")

IdleReq ==
    [pc |-> "idle", data |-> None, user |-> None, seva |-> None, slot |-> None,
     booked |-> 0, devotee |-> None, now |-> 0, credentials |-> None, resp |-> None]

\* the handler has returned or raised: its locals are gone; the client holds
\* the request it sent and the response
Respond(data, resp) == [IdleReq EXCEPT !.pc = "done", !.data = data, !.resp = resp]

InFlight == {r \in DOMAIN req : req[r].pc \notin {"idle", "done"}}

\* A variant whose upper comparison is off by one.
persons_invalid_off_by_one(number_of_persons, seva) ==
    number_of_persons < 1 \/ number_of_persons >= seva.max_persons_per_ticket

\* number_of_persons < 1 or number_of_persons > seva["max_persons_per_ticket"]
persons_invalid(number_of_persons, seva) ==
    number_of_persons < 1 \/ number_of_persons > seva.max_persons_per_ticket

\* A variant that lets one booking past the quota.
no_slots_available_strict(booked, slot) == booked > slot.online_quota

\* A variant that compares with the default of slot.get("online_quota", 10).
no_slots_available_default(booked, slot) == booked >= 10

\* booked >= slot["online_quota"]
no_slots_available(booked, slot) == booked >= slot.online_quota

\* f"SPJR-{date}-{str(uuid.uuid4())[:6].upper()}": the random part follows the
\* document's own uuid here
new_booking_number(id) == "SPJR-" \o ToString(id)

\* datetime.now(timezone.utc) when a booking document is built: one tick per
\* document, counting the documents built and not yet inserted
utcnow(bks, reqs) ==
    Len(bks) + Cardinality({r \in DOMAIN reqs : reqs[r].pc = "insert"}) + 1

\* A variant that leaves the booking awaiting payment.
new_booking_pending(id, now, data, user, devotee, seva, slot) ==
    [id |-> id,
     booking_number |-> new_booking_number(id),
     devotee_id |-> user.sub,
     devotee_name |-> devotee.name,
     devotee_mobile |-> devotee.mobile,
     seva_id |-> data.seva_id,
     seva_name_english |-> seva.name_english,
     seva_name_telugu |-> seva.name_telugu,
     slot_id |-> data.slot_id,
     slot_start_time |-> slot.start_time,
     slot_end_time |-> slot.end_time,
     booking_date_time |-> now,
     for_date |-> data.for_date,
     status |-> "Pending",
     payment_status |-> "Pending",
     number_of_persons |-> data.number_of_persons,
     amount |-> seva.base_price,
     note_to_devotee |-> seva.special_instructions]

\* the booking document built at lines 436-452; id stands for str(uuid.uuid4())
new_booking(id, now, data, user, devotee, seva, slot) ==
    [id |-> id,
     booking_number |-> new_booking_number(id),
     devotee_id |-> user.sub,
     devotee_name |-> devotee.name,
     devotee_mobile |-> devotee.mobile,
     seva_id |-> data.seva_id,
     seva_name_english |-> seva.name_english,
     seva_name_telugu |-> seva.name_telugu,
     slot_id |-> data.slot_id,
     slot_start_time |-> slot.start_time,
     slot_end_time |-> slot.end_time,
     booking_date_time |-> now,
     for_date |-> data.for_date,
     status |-> "Confirmed",
     payment_status |-> "Paid",
     number_of_persons |-> data.number_of_persons,
     amount |-> seva.base_price,
     note_to_devotee |-> seva.special_instructions]

\* a uuid4 never seen before: bookings are never deleted, so the next index is fresh
fresh_id(bks) == Len(bks) + 1

\* the request arrives: Depends(get_current_devotee) runs before the handler
create_booking_begin(r, in) ==
    /\ req[r].pc = "idle"
    /\ Len(bookings) + Cardinality(InFlight) < MaxBookings
    /\ \E data \in in.data, credentials \in in.credentials :
        LET auth == get_current_devotee(credentials) IN
        req' = [req EXCEPT ![r] =
                    IF auth.status_code # 200
                        THEN [Respond(data, auth) EXCEPT !.credentials = credentials]
                    ELSE [IdleReq EXCEPT !.pc = "find_seva", !.data = data,
                                         !.credentials = credentials,
                                         !.user = auth.body]]
    /\ UNCHANGED <<sevas, schedule_slots, bookings, devotees, day_profiles, adm, cat,
                   readers, lodging, accounts, giving>>

\* seva = await db.sevas.find_one(...); if not seva: raise 404
create_booking_find_seva(r) ==
    /\ req[r].pc = "find_seva"
    /\ LET seva == find_one(sevas, req[r].data.seva_id) IN
        req' = [req EXCEPT ![r] =
                    IF seva = None
                        THEN Respond(req[r].data, SevaNotFound)
                    ELSE [@ EXCEPT !.pc = "find_slot", !.seva = seva]]
    /\ UNCHANGED <<sevas, schedule_slots, bookings, devotees, day_profiles, adm, cat,
                   readers, lodging, accounts, giving>>

\* A variant that validates the person count before it resolves the slot.
create_booking_find_slot_persons_first(r) ==
    /\ req[r].pc = "find_slot"
    /\ LET slot == find_one(schedule_slots, req[r].data.slot_id) IN
        req' = [req EXCEPT ![r] =
                    IF persons_invalid(req[r].data.number_of_persons, req[r].seva)
                        THEN Respond(req[r].data, PersonsOutOfRange(req[r].seva))
                    ELSE IF slot = None
                        THEN Respond(req[r].data, SlotNotFound)
                    ELSE [@ EXCEPT !.pc = "count", !.slot = slot]]
    /\ UNCHANGED <<sevas, schedule_slots, bookings, devotees, day_profiles, adm, cat,
                   readers, lodging, accounts, giving>>

\* A variant that refuses a slot whose seva_id is not the requested seva.
create_booking_find_slot_of_seva(r) ==
    /\ req[r].pc = "find_slot"
    /\ LET slot == find_one(schedule_slots, req[r].data.slot_id) IN
        req' = [req EXCEPT ![r] =
                    IF slot = None \/ slot.seva_id # req[r].data.seva_id
                        THEN Respond(req[r].data, SlotNotFound)
                    ELSE IF persons_invalid(req[r].data.number_of_persons, req[r].seva)
                        THEN Respond(req[r].data, PersonsOutOfRange(req[r].seva))
                    ELSE [@ EXCEPT !.pc = "count", !.slot = slot]]
    /\ UNCHANGED <<sevas, schedule_slots, bookings, devotees, day_profiles, adm, cat,
                   readers, lodging, accounts, giving>>

\* slot = await db.schedule_slots.find_one(...); if not slot: raise 404;
\* then the person-count check, which needs no further await
create_booking_find_slot(r) ==
    /\ req[r].pc = "find_slot"
    /\ LET slot == find_one(schedule_slots, req[r].data.slot_id) IN
        req' = [req EXCEPT ![r] =
                    IF slot = None
                        THEN Respond(req[r].data, SlotNotFound)
                    ELSE IF persons_invalid(req[r].data.number_of_persons, req[r].seva)
                        THEN Respond(req[r].data, PersonsOutOfRange(req[r].seva))
                    ELSE [@ EXCEPT !.pc = "count", !.slot = slot]]
    /\ UNCHANGED <<sevas, schedule_slots, bookings, devotees, day_profiles, adm, cat,
                   readers, lodging, accounts, giving>>

\* A variant that reserves a place before it counts and keeps it on rejection.
create_booking_count_reserving(r) ==
    /\ req[r].pc = "count"
    /\ LET booked == count_documents(bookings, req[r].data.slot_id, req[r].data.for_date) IN
        IF no_slots_available(booked, req[r].slot)
            THEN /\ req' = [req EXCEPT ![r] = Respond(req[r].data, NoSlotsAvailable)]
                 /\ bookings' = insert_one(bookings,
                                  new_booking_pending(Len(bookings) + 1,
                                                      utcnow(bookings, req), req[r].data,
                                                      req[r].user, devotees[req[r].user.sub],
                                                      req[r].seva, req[r].slot))
        ELSE /\ req' = [req EXCEPT ![r] = [@ EXCEPT !.pc = "find_devotee", !.booked = booked]]
             /\ UNCHANGED bookings
    /\ UNCHANGED <<sevas, schedule_slots, devotees, day_profiles, adm, cat, readers,
                   lodging, accounts, giving>>

\* A variant that waits for a place on a full slot instead of rejecting.
create_booking_count_waiting(r) ==
    /\ req[r].pc = "count"
    /\ LET booked == count_documents(bookings, req[r].data.slot_id, req[r].data.for_date) IN
        /\ ~no_slots_available(booked, req[r].slot)
        /\ req' = [req EXCEPT ![r] = [@ EXCEPT !.pc = "find_devotee", !.booked = booked]]
    /\ UNCHANGED <<sevas, schedule_slots, bookings, devotees, day_profiles, adm, cat,
                   readers, lodging, accounts, giving>>

\* A variant that counts a dated slot's bookings under the slot's own date.
create_booking_count_on_slot_date(r) ==
    /\ req[r].pc = "count"
    /\ LET for_date == IF req[r].slot.date \notin {None, Some("")}
                           THEN req[r].slot.date.some
                       ELSE req[r].data.for_date
           booked == count_documents(bookings, req[r].data.slot_id, for_date)
       IN
        req' = [req EXCEPT ![r] =
                    IF no_slots_available(booked, req[r].slot)
                        THEN Respond(req[r].data, NoSlotsAvailable)
                    ELSE [@ EXCEPT !.pc = "find_devotee", !.booked = booked]]
    /\ UNCHANGED <<sevas, schedule_slots, bookings, devotees, day_profiles, adm, cat,
                   readers, lodging, accounts, giving>>

\* booked = await db.bookings.count_documents(...); if booked >= quota: raise 400
create_booking_count(r) ==
    /\ req[r].pc = "count"
    /\ LET booked == count_documents(bookings, req[r].data.slot_id, req[r].data.for_date) IN
        req' = [req EXCEPT ![r] =
                    IF no_slots_available(booked, req[r].slot)
                        THEN Respond(req[r].data, NoSlotsAvailable)
                    ELSE [@ EXCEPT !.pc = "find_devotee", !.booked = booked]]
    /\ UNCHANGED <<sevas, schedule_slots, bookings, devotees, day_profiles, adm, cat,
                   readers, lodging, accounts, giving>>

\* devotee = await db.devotees.find_one(...); the booking document is then built
\* from the locals (devotee.get on None raises AttributeError: an unhandled 500)
create_booking_find_devotee(r) ==
    /\ req[r].pc = "find_devotee"
    /\ LET devotee == find_one(devotees, req[r].user.sub) IN
        req' = [req EXCEPT ![r] =
                    IF devotee = None
                        THEN Respond(req[r].data, InternalServerError)
                    ELSE [@ EXCEPT !.pc = "insert", !.devotee = devotee,
                                     !.now = utcnow(bookings, req)]]
    /\ UNCHANGED <<sevas, schedule_slots, bookings, devotees, day_profiles, adm, cat,
                   readers, lodging, accounts, giving>>

\* A variant that repeats the occupancy check inside the write.
create_booking_insert_guarded(r) ==
    /\ req[r].pc = "insert"
    /\ LET booking == new_booking(fresh_id(bookings), req[r].now, req[r].data, req[r].user,
                                  req[r].devotee, req[r].seva, req[r].slot)
           booked == count_documents(bookings, req[r].data.slot_id, req[r].data.for_date)
       IN
        IF no_slots_available(booked, req[r].slot)
            THEN /\ req' = [req EXCEPT ![r] = Respond(req[r].data, NoSlotsAvailable)]
                 /\ UNCHANGED bookings
        ELSE /\ bookings' = insert_one(bookings, booking)
             /\ req' = [req EXCEPT ![r] = Respond(req[r].data, Ok(booking.id))]
    /\ UNCHANGED <<sevas, schedule_slots, devotees, day_profiles, adm, cat, readers,
                   lodging, accounts, giving>>

\* await db.bookings.insert_one(booking); return booking
create_booking_insert(r) ==
    /\ req[r].pc = "insert"
    /\ LET booking == new_booking(fresh_id(bookings), req[r].now, req[r].data, req[r].user,
                                  req[r].devotee, req[r].seva, req[r].slot) IN
        /\ bookings' = insert_one(bookings, booking)
        /\ req' = [req EXCEPT ![r] = Respond(req[r].data, Ok(booking.id))]
    /\ UNCHANGED <<sevas, schedule_slots, devotees, day_profiles, adm, cat, readers,
                   lodging, accounts, giving>>

\* the response has been delivered; the connection serves the next request
create_booking_return(r) ==
    /\ req[r].pc = "done"
    /\ req' = [req EXCEPT ![r] = IdleReq]
    /\ UNCHANGED <<sevas, schedule_slots, bookings, devotees, day_profiles, adm, cat,
                   readers, lodging, accounts, giving>>

\* the steps of the handler after the request has arrived
create_booking(r) ==
    \/ create_booking_find_seva(r)
    \/ create_booking_find_slot(r)
    \/ create_booking_count(r)
    \/ create_booking_find_devotee(r)
    \/ create_booking_insert(r)

(* ---------------------------------------------------- update_booking_status *)
InvalidStatus == HTTPException(400, "Invalid status. Must be one of: valid_statuses")

IdleAdm ==
    [pc |-> "idle", credentials |-> None, booking_id |-> 0, status |-> "", resp |-> None]

\* A variant that refuses to bring a booking back into a full slot.
update_booking_status_update_within_quota(in) ==
    /\ adm.pc = "idle"
    /\ \E booking_id \in BookingIds, status \in in.statuses, credentials \in in.staff :
        LET auth == get_current_admin(credentials)
            call == [pc |-> "find", credentials |-> credentials,
                     booking_id |-> booking_id, status |-> status, resp |-> None]
            found == find_booking(bookings, booking_id)
        IN
        IF auth.status_code # 200
            THEN /\ adm' = [call EXCEPT !.pc = "done", !.resp = auth]
                 /\ UNCHANGED bookings
        ELSE IF status \notin valid_statuses
            THEN /\ adm' = [call EXCEPT !.pc = "done",
                                        !.resp = InvalidStatus]
                 /\ UNCHANGED bookings
        ELSE IF /\ found # None
                /\ found.status = "Cancelled"
                /\ status # "Cancelled"
                /\ found.slot_id \in DOMAIN schedule_slots
                /\ no_slots_available(count_documents(bookings, found.slot_id,
                                                      found.for_date),
                                      schedule_slots[found.slot_id])
            THEN /\ adm' = [call EXCEPT !.pc = "done", !.resp = NoSlotsAvailable]
                 /\ UNCHANGED bookings
        ELSE /\ bookings' = update_one_status(bookings, booking_id, status)
             /\ adm' = call
    /\ UNCHANGED <<sevas, schedule_slots, devotees, day_profiles, req, cat, readers,
                   lodging, accounts, giving>>

\* Depends(get_current_admin), the enum check, then
\* await db.bookings.update_one({"id": booking_id}, {"$set": {"status": ..}})
update_booking_status_update(in) ==
    /\ adm.pc = "idle"
    /\ \E booking_id \in BookingIds, status \in in.statuses, credentials \in in.staff :
        LET auth == get_current_admin(credentials)
            call == [pc |-> "find", credentials |-> credentials,
                     booking_id |-> booking_id, status |-> status, resp |-> None]
        IN
        IF auth.status_code # 200
            THEN /\ adm' = [call EXCEPT !.pc = "done", !.resp = auth]
                 /\ UNCHANGED bookings
        ELSE IF status \notin valid_statuses
            THEN /\ adm' = [call EXCEPT !.pc = "done",
                                        !.resp = InvalidStatus]
                 /\ UNCHANGED bookings
        ELSE /\ bookings' = update_one_status(bookings, booking_id, status)
             /\ adm' = call
    /\ UNCHANGED <<sevas, schedule_slots, devotees, day_profiles, req, cat, readers,
                   lodging, accounts, giving>>

\* A variant that answers 404 when no booking has the id.
update_booking_status_find_or_404 ==
    /\ adm.pc = "find"
    /\ LET found == find_booking(bookings, adm.booking_id) IN
        adm' = [adm EXCEPT !.pc = "done",
                           !.resp = IF found = None
                                        THEN HTTPException(404, "Booking not found")
                                    ELSE Ok([id |-> found.id, status |-> found.status])]
    /\ UNCHANGED <<sevas, schedule_slots, bookings, devotees, day_profiles, req, cat,
                   readers, lodging, accounts, giving>>

\* return await db.bookings.find_one({"id": booking_id})
update_booking_status_find ==
    /\ adm.pc = "find"
    /\ LET found == find_booking(bookings, adm.booking_id) IN
        adm' = [adm EXCEPT !.pc = "done",
                           !.resp = Ok(IF found = None THEN None
                                       ELSE [id |-> found.id, status |-> found.status])]
    /\ UNCHANGED <<sevas, schedule_slots, bookings, devotees, day_profiles, req, cat,
                   readers, lodging, accounts, giving>>

\* the response has been delivered
update_booking_status_return ==
    /\ adm.pc = "done"
    /\ adm' = IdleAdm
    /\ UNCHANGED <<sevas, schedule_slots, bookings, devotees, day_profiles, req, cat,
                   readers, lodging, accounts, giving>>

(* ------------------------------------------------------------------ catalog *)
\* Python truthiness of an Optional[str]: None and the empty string are falsy.
Truthy(o) == o # None /\ o.some # ""

\* {k: v for k, v in data.model_dump().items() if v is not None}
update_data(dump) ==
    [k \in {f \in DOMAIN dump : dump[f] # None} |-> dump[k].some]

\* the effect of {"$set": update_data} on one document
set_fields(doc, update) ==
    [k \in DOMAIN doc \cup DOMAIN update |->
        IF k \in DOMAIN update THEN update[k] ELSE doc[k]]

\* A variant that applies the update to every document of the collection.
update_many(coll, id, update) ==
    IF id \in DOMAIN coll THEN [k \in DOMAIN coll |-> set_fields(coll[k], update)] ELSE coll

\* collection.update_one({"id": id}, {"$set": update_data}); no upsert
update_one(coll, id, update) ==
    IF id \in DOMAIN coll THEN [coll EXCEPT ![id] = set_fields(@, update)] ELSE coll

\* collection.delete_one({"id": id})
delete_one(coll, id) == [k \in DOMAIN coll \ {id} |-> coll[k]]

NoFieldsToUpdate == HTTPException(400, "No fields to update")
SevaDeleted == Ok([message |-> "Seva deleted"])
SlotDeleted == Ok([message |-> "Slot deleted"])

IdleCat ==
    [pc |-> "idle", op |-> "", id |-> "", data |-> None, credentials |-> None,
     resp |-> None]

\* Depends(get_current_admin), the empty-update check, then
\* result = await db.sevas.update_one(...); 404 when nothing matched
update_seva_update(in) ==
    /\ cat.pc = "idle"
    /\ \E seva_id \in in.seva_ids, data \in in.seva_updates, credentials \in in.staff :
        LET auth == get_current_admin(credentials)
            call == [pc |-> "find", op |-> "update_seva", id |-> seva_id,
                     data |-> data, credentials |-> credentials,
                     resp |-> None]
        IN
        IF auth.status_code # 200
            THEN /\ cat' = [call EXCEPT !.pc = "done", !.resp = auth]
                 /\ UNCHANGED sevas
        ELSE IF DOMAIN update_data(data) = {}
            THEN /\ cat' = [call EXCEPT !.pc = "done", !.resp = NoFieldsToUpdate]
                 /\ UNCHANGED sevas
        ELSE IF seva_id \notin DOMAIN sevas
            THEN /\ cat' = [call EXCEPT !.pc = "done", !.resp = SevaNotFound]
                 /\ UNCHANGED sevas
        ELSE /\ sevas' = update_one(sevas, seva_id, update_data(data))
             /\ cat' = call
    /\ UNCHANGED <<schedule_slots, bookings, devotees, day_profiles, req, adm, readers,
                   lodging, accounts, giving>>

\* return await db.sevas.find_one({"id": seva_id})
update_seva_find ==
    /\ cat.pc = "find"
    /\ cat.op = "update_seva"
    /\ cat' = [cat EXCEPT !.pc = "done", !.resp = Ok(find_one(sevas, cat.id))]
    /\ UNCHANGED <<sevas, schedule_slots, bookings, devotees, day_profiles, req, adm,
                   readers, lodging, accounts, giving>>

\* A variant that removes the slots and the bookings of the seva with it.
delete_seva_cascade(in) ==
    /\ cat.pc = "idle"
    /\ \E seva_id \in in.seva_ids, credentials \in in.staff :
        LET auth == get_current_admin(credentials)
            call == [pc |-> "done", op |-> "delete_seva", id |-> seva_id,
                     data |-> None, credentials |-> credentials,
                     resp |-> None]
        IN
        IF auth.status_code # 200
            THEN /\ cat' = [call EXCEPT !.resp = auth]
                 /\ UNCHANGED <<sevas, schedule_slots, bookings>>
        ELSE IF seva_id \notin DOMAIN sevas
            THEN /\ cat' = [call EXCEPT !.resp = SevaNotFound]
                 /\ UNCHANGED <<sevas, schedule_slots, bookings>>
        ELSE /\ sevas' = delete_one(sevas, seva_id)
             /\ schedule_slots' =
                    [k \in {j \in DOMAIN schedule_slots :
                                schedule_slots[j].seva_id # seva_id}
                        |-> schedule_slots[k]]
             /\ bookings' = SelectSeq(bookings, LAMBDA b : b.seva_id # seva_id)
             /\ cat' = [call EXCEPT !.resp = SevaDeleted]
    /\ UNCHANGED <<devotees, day_profiles, req, adm, readers, lodging, accounts, giving>>

\* result = await db.sevas.delete_one({"id": seva_id}); 404 when nothing was deleted
delete_seva(in) ==
    /\ cat.pc = "idle"
    /\ \E seva_id \in in.seva_ids, credentials \in in.staff :
        LET auth == get_current_admin(credentials)
            call == [pc |-> "done", op |-> "delete_seva", id |-> seva_id,
                     data |-> None, credentials |-> credentials,
                     resp |-> None]
        IN
        IF auth.status_code # 200
            THEN /\ cat' = [call EXCEPT !.resp = auth]
                 /\ UNCHANGED sevas
        ELSE IF seva_id \notin DOMAIN sevas
            THEN /\ cat' = [call EXCEPT !.resp = SevaNotFound]
                 /\ UNCHANGED sevas
        ELSE /\ sevas' = delete_one(sevas, seva_id)
             /\ cat' = [call EXCEPT !.resp = SevaDeleted]
    /\ UNCHANGED <<schedule_slots, bookings, devotees, day_profiles, req, adm, readers,
                   lodging, accounts, giving>>

\* Depends(get_current_admin), the empty-update check, then
\* await db.schedule_slots.update_one(...); the match count is not looked at
update_schedule_slot_update(in) ==
    /\ cat.pc = "idle"
    /\ \E slot_id \in in.slot_ids, data \in in.slot_updates, credentials \in in.staff :
        LET auth == get_current_admin(credentials)
            call == [pc |-> "find", op |-> "update_schedule_slot", id |-> slot_id,
                     data |-> data, credentials |-> credentials,
                     resp |-> None]
        IN
        IF auth.status_code # 200
            THEN /\ cat' = [call EXCEPT !.pc = "done", !.resp = auth]
                 /\ UNCHANGED schedule_slots
        ELSE IF DOMAIN update_data(data) = {}
            THEN /\ cat' = [call EXCEPT !.pc = "done", !.resp = NoFieldsToUpdate]
                 /\ UNCHANGED schedule_slots
        ELSE /\ schedule_slots' = update_one(schedule_slots, slot_id, update_data(data))
             /\ cat' = call
    /\ UNCHANGED <<sevas, bookings, devotees, day_profiles, req, adm, readers, lodging,
                   accounts, giving>>

\* return await db.schedule_slots.find_one({"id": slot_id})
update_schedule_slot_find ==
    /\ cat.pc = "find"
    /\ cat.op = "update_schedule_slot"
    /\ cat' = [cat EXCEPT !.pc = "done", !.resp = Ok(find_one(schedule_slots, cat.id))]
    /\ UNCHANGED <<sevas, schedule_slots, bookings, devotees, day_profiles, req, adm,
                   readers, lodging, accounts, giving>>

\* result = await db.schedule_slots.delete_one({"id": slot_id}); 404 when
\* nothing was deleted
delete_schedule_slot(in) ==
    /\ cat.pc = "idle"
    /\ \E slot_id \in in.slot_ids, credentials \in in.staff :
        LET auth == get_current_admin(credentials)
            call == [pc |-> "done", op |-> "delete_schedule_slot", id |-> slot_id,
                     data |-> None, credentials |-> credentials,
                     resp |-> None]
        IN
        IF auth.status_code # 200
            THEN /\ cat' = [call EXCEPT !.resp = auth]
                 /\ UNCHANGED schedule_slots
        ELSE IF slot_id \notin DOMAIN schedule_slots
            THEN /\ cat' = [call EXCEPT !.resp = SlotNotFound]
                 /\ UNCHANGED schedule_slots
        ELSE /\ schedule_slots' = delete_one(schedule_slots, slot_id)
             /\ cat' = [call EXCEPT !.resp = SlotDeleted]
    /\ UNCHANGED <<sevas, bookings, devotees, day_profiles, req, adm, readers, lodging,
                   accounts, giving>>

\* Depends(get_current_admin), the empty-update check, then
\* await db.day_profiles.update_one(...); the match count is not looked at
update_day_profile_update(in) ==
    /\ cat.pc = "idle"
    /\ \E profile_id \in in.profile_ids, data \in in.profile_updates,
          credentials \in in.staff :
        LET auth == get_current_admin(credentials)
            call == [pc |-> "find", op |-> "update_day_profile", id |-> profile_id,
                     data |-> data, credentials |-> credentials,
                     resp |-> None]
        IN
        IF auth.status_code # 200
            THEN /\ cat' = [call EXCEPT !.pc = "done", !.resp = auth]
                 /\ UNCHANGED day_profiles
        ELSE IF DOMAIN update_data(data) = {}
            THEN /\ cat' = [call EXCEPT !.pc = "done", !.resp = NoFieldsToUpdate]
                 /\ UNCHANGED day_profiles
        ELSE /\ day_profiles' = update_one(day_profiles, profile_id, update_data(data))
             /\ cat' = call
    /\ UNCHANGED <<sevas, schedule_slots, bookings, devotees, req, adm, readers, lodging,
                   accounts, giving>>

\* return await db.day_profiles.find_one({"id": profile_id})
update_day_profile_find ==
    /\ cat.pc = "find"
    /\ cat.op = "update_day_profile"
    /\ cat' = [cat EXCEPT !.pc = "done", !.resp = Ok(find_one(day_profiles, cat.id))]
    /\ UNCHANGED <<sevas, schedule_slots, bookings, devotees, day_profiles, req, adm,
                   readers, lodging, accounts, giving>>

ProfileDeleted == Ok([message |-> "Profile deleted"])
ProfileNotFound == HTTPException(404, "Profile not found")

\* collection.insert_one({"id": id, **data.model_dump()})
insert_doc(coll, id, data) ==
    [k \in DOMAIN coll \cup {id} |->
        IF k = id THEN set_fields([id |-> id], data) ELSE coll[k]]

\* the create handlers: Depends(get_current_admin), then insert_one and the
\* document as the response
create_seva(in) ==
    /\ cat.pc = "idle"
    /\ NewSeva \notin DOMAIN sevas
    /\ \E data \in in.seva_creates, credentials \in in.staff :
        LET auth == get_current_admin(credentials)
            call == [IdleCat EXCEPT !.pc = "done", !.op = "create_seva", !.id = NewSeva,
                                    !.credentials = credentials]
        IN
        IF auth.status_code # 200
            THEN /\ cat' = [call EXCEPT !.resp = auth]
                 /\ UNCHANGED sevas
        ELSE /\ sevas' = insert_doc(sevas, NewSeva, data)
             /\ cat' = [call EXCEPT !.resp = Ok(sevas'[NewSeva])]
    /\ UNCHANGED <<schedule_slots, bookings, devotees, day_profiles, req, adm, readers,
                   lodging, accounts, giving>>

create_day_profile(in) ==
    /\ cat.pc = "idle"
    /\ NewProfile \notin DOMAIN day_profiles
    /\ \E data \in in.profile_creates, credentials \in in.staff :
        LET auth == get_current_admin(credentials)
            call == [IdleCat EXCEPT !.pc = "done", !.op = "create_day_profile",
                                    !.id = NewProfile, !.credentials = credentials]
        IN
        IF auth.status_code # 200
            THEN /\ cat' = [call EXCEPT !.resp = auth]
                 /\ UNCHANGED day_profiles
        ELSE /\ day_profiles' = insert_doc(day_profiles, NewProfile, data)
             /\ cat' = [call EXCEPT !.resp = Ok(day_profiles'[NewProfile])]
    /\ UNCHANGED <<sevas, schedule_slots, bookings, devotees, req, adm, readers,
                   lodging, accounts, giving>>

create_schedule_slot(in) ==
    /\ cat.pc = "idle"
    /\ NewSlot \notin DOMAIN schedule_slots
    /\ \E data \in in.slot_creates, credentials \in in.staff :
        LET auth == get_current_admin(credentials)
            call == [IdleCat EXCEPT !.pc = "done", !.op = "create_schedule_slot",
                                    !.id = NewSlot, !.credentials = credentials]
        IN
        IF auth.status_code # 200
            THEN /\ cat' = [call EXCEPT !.resp = auth]
                 /\ UNCHANGED schedule_slots
        ELSE /\ schedule_slots' = insert_doc(schedule_slots, NewSlot, data)
             /\ cat' = [call EXCEPT !.resp = Ok(schedule_slots'[NewSlot])]
    /\ UNCHANGED <<sevas, bookings, devotees, day_profiles, req, adm, readers,
                   lodging, accounts, giving>>

\* result = await db.day_profiles.delete_one({"id": profile_id}); 404 when
\* nothing was deleted
delete_day_profile(in) ==
    /\ cat.pc = "idle"
    /\ \E profile_id \in in.profile_ids, credentials \in in.staff :
        LET auth == get_current_admin(credentials)
            call == [IdleCat EXCEPT !.pc = "done", !.op = "delete_day_profile",
                                    !.id = profile_id, !.credentials = credentials]
        IN
        IF auth.status_code # 200
            THEN /\ cat' = [call EXCEPT !.resp = auth]
                 /\ UNCHANGED day_profiles
        ELSE IF profile_id \notin DOMAIN day_profiles
            THEN /\ cat' = [call EXCEPT !.resp = ProfileNotFound]
                 /\ UNCHANGED day_profiles
        ELSE /\ day_profiles' = delete_one(day_profiles, profile_id)
             /\ cat' = [call EXCEPT !.resp = ProfileDeleted]
    /\ UNCHANGED <<sevas, schedule_slots, bookings, devotees, req, adm, readers,
                   lodging, accounts, giving>>

\* the response has been delivered
catalog_return ==
    /\ cat.pc = "done"
    /\ cat' = IdleCat
    /\ UNCHANGED <<sevas, schedule_slots, bookings, devotees, day_profiles, req, adm,
                   readers, lodging, accounts, giving>>

(* ------------------------------------------------------ get_available_slots *)
SlotsToList == 100     \* .to_list(100)

\* documents come back in insertion order
SlotOrder == <<"slot1", "slot2">>

\* cursor.to_list(length)
to_list(cursor, length) ==
    SubSeq(cursor, 1, IF Len(cursor) < length THEN Len(cursor) ELSE length)

\* db.schedule_slots.find({"seva_id": seva_id})
find_slots(slots, seva_id) ==
    LET ids == SelectSeq(SlotOrder,
                         LAMBDA id : id \in DOMAIN slots /\ slots[id].seva_id = seva_id)
    IN [j \in DOMAIN ids |-> slots[ids[j]]]

\* A variant that compares the dates without the truthiness test.
date_mismatch_strict(slot, date) == slot.date # Some(date)

\* slot.get("date") and slot["date"] != date
date_mismatch(slot, date) == Truthy(slot.date) /\ slot.date.some # date

\* A variant that also returns the slots with nothing left.
has_remaining_or_zero(remaining) == remaining >= 0

\* remaining > 0
has_remaining(remaining) == remaining > 0

\* the loop skips the slots of another date without awaiting: the position of
\* the next slot it counts, or Len(slots) + 1 when the loop is over
next_counted(slots, from, date) ==
    LET js == {j \in from..Len(slots) : ~date_mismatch(slots[j], date)} IN
    IF js = {} THEN Len(slots) + 1
    ELSE CHOOSE j \in js : \A k \in js : j <= k

\* slot["remaining_slots"] = remaining; slot["booked_count"] = booked
annotated(slot, remaining, booked) ==
    set_fields(slot, [remaining_slots |-> remaining, booked_count |-> booked])

\* arrived is the number of stored bookings when the request arrived; the
\* handler does not read it
IdleAvl ==
    [pc |-> "idle", seva_id |-> "", date |-> "", slots |-> <<>>, i |-> 0,
     available |-> <<>>, arrived |-> 0, resp |-> None]

\* slots = await db.schedule_slots.find({"seva_id": seva_id}).to_list(100)
get_available_slots_find(in) ==
    /\ avl.pc = "idle"
    /\ \E seva_id \in in.seva_ids, date \in in.dates :
        LET slots == to_list(find_slots(schedule_slots, seva_id), SlotsToList)
            i == next_counted(slots, 1, date)
            call == [IdleAvl EXCEPT !.seva_id = seva_id, !.date = date,
                                    !.arrived = Len(bookings)]
        IN
        avl' = IF i > Len(slots)
                   THEN [call EXCEPT !.pc = "done", !.resp = Ok(<<>>)]
               ELSE [call EXCEPT !.pc = "count", !.slots = slots, !.i = i]
    /\ UNCHANGED <<sevas, schedule_slots, bookings, devotees, day_profiles, req, adm,
                   cat, rdr, lst, tkt, lodging, accounts, giving>>

\* A variant that writes the annotations back to the stored slot.
get_available_slots_count_writing ==
    /\ avl.pc = "count"
    /\ LET slot == avl.slots[avl.i]
           booked == count_documents(bookings, slot.id, avl.date)
           remaining == slot.online_quota - booked
           available == IF has_remaining(remaining)
                            THEN Append(avl.available, annotated(slot, remaining, booked))
                        ELSE avl.available
           i == next_counted(avl.slots, avl.i + 1, avl.date)
       IN
        /\ avl' = IF i > Len(avl.slots)
                      THEN [avl EXCEPT !.pc = "done", !.slots = <<>>, !.i = 0,
                                       !.available = <<>>, !.resp = Ok(available)]
                  ELSE [avl EXCEPT !.i = i, !.available = available]
        /\ schedule_slots' =
                update_one(schedule_slots, slot.id,
                           [online_quota |-> IF remaining > 0 THEN remaining
                                             ELSE slot.online_quota])
    /\ UNCHANGED <<sevas, bookings, devotees, day_profiles, req, adm, cat, rdr, lst, tkt,
                   lodging, accounts, giving>>

\* booked = await db.bookings.count_documents(...) for the slot the loop is at;
\* the slot is annotated and appended when remaining > 0, and the loop runs on
\* to its next await or to the return
get_available_slots_count ==
    /\ avl.pc = "count"
    /\ LET slot == avl.slots[avl.i]
           booked == count_documents(bookings, slot.id, avl.date)
           remaining == slot.online_quota - booked
           available == IF has_remaining(remaining)
                            THEN Append(avl.available, annotated(slot, remaining, booked))
                        ELSE avl.available
           i == next_counted(avl.slots, avl.i + 1, avl.date)
       IN
        avl' = IF i > Len(avl.slots)
                   THEN [avl EXCEPT !.pc = "done", !.slots = <<>>, !.i = 0,
                                    !.available = <<>>, !.resp = Ok(available)]
               ELSE [avl EXCEPT !.i = i, !.available = available]
    /\ UNCHANGED <<sevas, schedule_slots, bookings, devotees, day_profiles, req, adm,
                   cat, rdr, lst, tkt, lodging, accounts, giving>>

\* the response has been delivered
get_available_slots_return ==
    /\ avl.pc = "done"
    /\ avl' = IdleAvl
    /\ UNCHANGED <<sevas, schedule_slots, bookings, devotees, day_profiles, req, adm,
                   cat, rdr, lst, tkt, lodging, accounts, giving>>

(* -------------------------------------------------------------- get_booking *)
BookingNotFound == HTTPException(404, "Booking not found")

IdleRdr == [pc |-> "idle", booking_id |-> 0, resp |-> None]

\* A variant that resolves the seva at read time.
get_booking_joining(in) ==
    /\ rdr.pc = "idle"
    /\ \E booking_id \in in.booking_ids :
        LET booking == find_booking(bookings, booking_id)
            seva == find_one(sevas, booking.seva_id)
        IN
        rdr' = [pc |-> "done", booking_id |-> booking_id,
                resp |-> IF booking = None THEN BookingNotFound
                         ELSE IF seva = None THEN Ok(booking)
                         ELSE Ok([booking EXCEPT
                                    !.seva_name_english = seva.name_english,
                                    !.amount = seva.base_price])]
    /\ UNCHANGED <<sevas, schedule_slots, bookings, devotees, day_profiles, req, adm,
                   cat, avl, lst, tkt, lodging, accounts, giving>>

\* booking = await db.bookings.find_one({"id": booking_id}); 404 if not booking
get_booking(in) ==
    /\ rdr.pc = "idle"
    /\ \E booking_id \in in.booking_ids :
        LET booking == find_booking(bookings, booking_id) IN
        rdr' = [pc |-> "done", booking_id |-> booking_id,
                resp |-> IF booking = None THEN BookingNotFound ELSE Ok(booking)]
    /\ UNCHANGED <<sevas, schedule_slots, bookings, devotees, day_profiles, req, adm,
                   cat, avl, lst, tkt, lodging, accounts, giving>>

\* the response has been delivered
get_booking_return ==
    /\ rdr.pc = "done"
    /\ rdr' = IdleRdr
    /\ UNCHANGED <<sevas, schedule_slots, bookings, devotees, day_profiles, req, adm,
                   cat, avl, lst, tkt, lodging, accounts, giving>>

(* ------------------------------------------------------ list_sevas, get_seva *)
SevasToList == 100     \* .to_list(100)

\* documents come back in insertion order
SevaOrder == <<"sevaA", "sevaB", NewSeva>>

\* query = {}; if active_only: query["active_flag"] = True;
\* if paroksha is not None: query["is_paroksha_available"] = paroksha
list_query(active_only, paroksha) ==
    [active_flag |-> IF active_only THEN Some(TRUE) ELSE None,
     is_paroksha_available |-> paroksha]

\* a document matches when it carries the value of every key of the query
matches(doc, query) == \A f \in DOMAIN query : query[f] = None \/ doc[f] = query[f].some

\* A variant that drops the active_flag key from the query.
find_sevas_any_flag(coll, query) ==
    LET ids == SelectSeq(SevaOrder,
                         LAMBDA id : id \in DOMAIN coll
                                     /\ matches(coll[id], [query EXCEPT !.active_flag = None]))
    IN [j \in DOMAIN ids |-> coll[ids[j]]]

\* db.sevas.find(query)
find_sevas(coll, query) ==
    LET ids == SelectSeq(SevaOrder,
                         LAMBDA id : id \in DOMAIN coll /\ matches(coll[id], query))
    IN [j \in DOMAIN ids |-> coll[ids[j]]]

IdleLst ==
    [pc |-> "idle", op |-> "", seva_id |-> "", active_only |-> TRUE,
     paroksha |-> None, resp |-> None]

\* sevas = await db.sevas.find(query).to_list(100); return sevas
list_sevas(in) ==
    /\ lst.pc = "idle"
    /\ \E active_only \in in.active_only, paroksha \in in.paroksha :
        lst' = [IdleLst EXCEPT
                   !.pc = "done", !.op = "list_sevas", !.active_only = active_only,
                   !.paroksha = paroksha,
                   !.resp = Ok(to_list(find_sevas(sevas, list_query(active_only, paroksha)),
                                       SevasToList))]
    /\ UNCHANGED <<sevas, schedule_slots, bookings, devotees, day_profiles, req, adm,
                   cat, avl, rdr, tkt, lodging, accounts, giving>>

\* seva = await db.sevas.find_one({"id": seva_id}); 404 if not seva
get_seva(in) ==
    /\ lst.pc = "idle"
    /\ \E seva_id \in in.seva_ids :
        LET seva == find_one(sevas, seva_id) IN
        lst' = [IdleLst EXCEPT
                   !.pc = "done", !.op = "get_seva", !.seva_id = seva_id,
                   !.resp = IF seva = None THEN SevaNotFound ELSE Ok(seva)]
    /\ UNCHANGED <<sevas, schedule_slots, bookings, devotees, day_profiles, req, adm,
                   cat, avl, rdr, tkt, lodging, accounts, giving>>

\* the response has been delivered
listing_return ==
    /\ lst.pc = "done"
    /\ lst' = IdleLst
    /\ UNCHANGED <<sevas, schedule_slots, bookings, devotees, day_profiles, req, adm,
                   cat, avl, rdr, tkt, lodging, accounts, giving>>

(* ------------------------------------------------------------ lookup_ticket *)
TicketsToList == 20    \* .to_list(20)

IdleTkt == [pc |-> "idle", booking_number |-> None, mobile |-> None, resp |-> None]

ProvideNumberOrMobile == HTTPException(400, "Provide booking_number or mobile")

\* db.bookings.find_one({"booking_number": booking_number}): the first match
find_one_by_number(bks, number) ==
    LET js == {j \in DOMAIN bks : bks[j].booking_number = number} IN
    IF js = {} THEN None
    ELSE bks[CHOOSE j \in js : \A k \in js : j <= k]

\* cursor.sort("booking_date_time", -1)
RECURSIVE sort_desc(_)
sort_desc(bks) ==
    IF bks = <<>> THEN <<>>
    ELSE LET i == CHOOSE i \in DOMAIN bks :
                    \A k \in DOMAIN bks :
                        bks[i].booking_date_time >= bks[k].booking_date_time
             rest == [j \in 1..(Len(bks) - 1) |-> IF j < i THEN bks[j] ELSE bks[j + 1]]
         IN <<bks[i]>> \o sort_desc(rest)

\* db.bookings.find({"devotee_mobile": mobile}).sort("booking_date_time", -1).to_list(20)
find_by_mobile(bks, mobile) ==
    to_list(sort_desc(SelectSeq(bks, LAMBDA b : b.devotee_mobile = mobile)),
            TicketsToList)

\* the request arrives; the handler runs up to its first await, or to the 400
\* when neither parameter is truthy
lookup_ticket_begin(in) ==
    /\ tkt.pc = "idle"
    /\ \E booking_number \in in.booking_numbers, mobile \in in.mobiles :
        LET call == [IdleTkt EXCEPT !.booking_number = booking_number,
                                    !.mobile = mobile]
        IN
        tkt' = IF Truthy(booking_number) THEN [call EXCEPT !.pc = "find_one"]
               ELSE IF Truthy(mobile) THEN [call EXCEPT !.pc = "find"]
               ELSE [call EXCEPT !.pc = "done", !.resp = ProvideNumberOrMobile]
    /\ UNCHANGED <<sevas, schedule_slots, bookings, devotees, day_profiles, req, adm,
                   cat, avl, rdr, lst, lodging, accounts, giving>>

\* booking = await db.bookings.find_one({"booking_number": ..}); if booking:
\* return [booking]; otherwise the handler falls through to the mobile test
lookup_ticket_find_one ==
    /\ tkt.pc = "find_one"
    /\ LET booking == find_one_by_number(bookings, tkt.booking_number.some) IN
        tkt' = IF booking # None THEN [tkt EXCEPT !.pc = "done", !.resp = Ok(<<booking>>)]
               ELSE IF Truthy(tkt.mobile) THEN [tkt EXCEPT !.pc = "find"]
               ELSE [tkt EXCEPT !.pc = "done", !.resp = ProvideNumberOrMobile]
    /\ UNCHANGED <<sevas, schedule_slots, bookings, devotees, day_profiles, req, adm,
                   cat, avl, rdr, lst, lodging, accounts, giving>>

\* bookings = await db.bookings.find({"devotee_mobile": mobile})...; return bookings
lookup_ticket_find ==
    /\ tkt.pc = "find"
    /\ tkt' = [tkt EXCEPT !.pc = "done",
                          !.resp = Ok(find_by_mobile(bookings, tkt.mobile.some))]
    /\ UNCHANGED <<sevas, schedule_slots, bookings, devotees, day_profiles, req, adm,
                   cat, avl, rdr, lst, lodging, accounts, giving>>

\* the response has been delivered
lookup_ticket_return ==
    /\ tkt.pc = "done"
    /\ tkt' = IdleTkt
    /\ UNCHANGED <<sevas, schedule_slots, bookings, devotees, day_profiles, req, adm,
                   cat, avl, rdr, lst, lodging, accounts, giving>>

(* ------------------------------------------ create_donation, donation receipt *)
DonationNotFound == HTTPException(404, "Donation not found")
ReceiptOnlyForPaid == HTTPException(400, "Receipt only for paid donations")

\* the lists ones and tens of _amount_to_words
ones ==
    <<"One", "Two", "Three", "Four", "Five", "Six", "Seven", "Eight", "Nine", "Ten",
      "Eleven", "Twelve", "Thirteen", "Fourteen", "Fifteen", "Sixteen", "Seventeen",
      "Eighteen", "Nineteen">>
tens == <<"", "Twenty", "Thirty", "Forty", "Fifty", "Sixty", "Seventy", "Eighty", "Ninety">>

\* The strings of _amount_to_words are kept as their words in order: every
\* concatenation in the code joins non-empty words with one space.

\* A variant that keeps counting in thousands up to a million.
RECURSIVE convert_western(_)
convert_western(num) ==
    IF num < 20 THEN <<ones[num]>>
    ELSE IF num < 100
        THEN <<tens[num \div 10]>> \o (IF num % 10 # 0 THEN <<ones[num % 10]>> ELSE <<>>)
    ELSE IF num < 1000
        THEN <<ones[num \div 100], "Hundred">>
             \o (IF num % 100 # 0 THEN <<"and">> \o convert_western(num % 100) ELSE <<>>)
    ELSE IF num < 1000000
        THEN convert_western(num \div 1000) \o <<"Thousand">>
             \o (IF num % 1000 # 0 THEN convert_western(num % 1000) ELSE <<>>)
    ELSE IF num < 10000000
        THEN convert_western(num \div 100000) \o <<"Lakh">>
             \o (IF num % 100000 # 0 THEN convert_western(num % 100000) ELSE <<>>)
    ELSE convert_western(num \div 10000000) \o <<"Crore">>
         \o (IF num % 10000000 # 0 THEN convert_western(num % 10000000) ELSE <<>>)

\* _convert(num), for num >= 1
RECURSIVE convert(_)
convert(num) ==
    IF num < 20 THEN <<ones[num]>>
    ELSE IF num < 100
        THEN <<tens[num \div 10]>> \o (IF num % 10 # 0 THEN <<ones[num % 10]>> ELSE <<>>)
    ELSE IF num < 1000
        THEN <<ones[num \div 100], "Hundred">>
             \o (IF num % 100 # 0 THEN <<"and">> \o convert(num % 100) ELSE <<>>)
    ELSE IF num < 100000
        THEN convert(num \div 1000) \o <<"Thousand">>
             \o (IF num % 1000 # 0 THEN convert(num % 1000) ELSE <<>>)
    ELSE IF num < 10000000
        THEN convert(num \div 100000) \o <<"Lakh">>
             \o (IF num % 100000 # 0 THEN convert(num % 100000) ELSE <<>>)
    ELSE convert(num \div 10000000) \o <<"Crore">>
         \o (IF num % 10000000 # 0 THEN convert(num % 10000000) ELSE <<>>)

\* if n == 0: return "Zero"; return _convert(n) + " Rupees Only"
amount_to_words(n) ==
    IF n = 0 THEN <<"Zero">> ELSE convert(n) \o <<"Rupees", "Only">>

IdleRcp == [pc |-> "idle", op |-> "", donation_id |-> 0, resp |-> None]

\* the donation document of create_donation; id stands for str(uuid.uuid4())
new_donation(id, data, user) ==
    [id |-> id,
     donation_type |-> data.donation_type,
     amount |-> data.amount,
     donor_name |-> IF ~data.is_anonymous THEN data.donor_name ELSE "Anonymous",
     is_anonymous |-> data.is_anonymous,
     devotee_id |-> IF user # None THEN Some(user.sub) ELSE None,
     payment_status |-> "Paid"]

\* get_optional_devotee: the payload of a token that decodes, None otherwise
get_optional_devotee(credentials) ==
    IF credentials = None THEN None
    ELSE IF credentials.kind # "valid" THEN None
    ELSE [sub |-> credentials.sub, role |-> credentials.role]

\* await db.donations.insert_one(donation); return donation
create_donation(in) ==
    /\ rcp.pc = "idle"
    /\ Len(donations) < MaxDonations
    /\ \E data \in in.donations, credentials \in in.credentials :
        LET donation == new_donation(Len(donations) + 1, data,
                                     get_optional_devotee(credentials)) IN
        /\ donations' = Append(donations, donation)
        /\ rcp' = [IdleRcp EXCEPT !.pc = "done", !.op = "create_donation",
                                  !.donation_id = donation.id, !.resp = Ok(donation)]
    /\ UNCHANGED <<sevas, schedule_slots, bookings, devotees, day_profiles, req, adm,
                   cat, readers, lodging, accounts>>

\* the fields of the receipt that come from the donation
receipt(donation) ==
    [donor_name |-> donation.donor_name,
     donation_type |-> donation.donation_type,
     amount |-> donation.amount,
     amount_words |-> amount_to_words(donation.amount),
     payment_status |-> donation.payment_status,
     is_anonymous |-> donation.is_anonymous]

\* donation = await db.donations.find_one({"id": donation_id}); 404 if not
\* donation; 400 unless Paid; the receipt otherwise
get_donation_receipt(in) ==
    /\ rcp.pc = "idle"
    /\ \E donation_id \in in.donation_ids :
        LET donation == find_booking(donations, donation_id)
            call == [IdleRcp EXCEPT !.pc = "done", !.op = "get_donation_receipt",
                                    !.donation_id = donation_id]
        IN
        rcp' = IF donation = None THEN [call EXCEPT !.resp = DonationNotFound]
               ELSE IF donation.payment_status # "Paid"
                   THEN [call EXCEPT !.resp = ReceiptOnlyForPaid]
               ELSE [call EXCEPT !.resp = Ok(receipt(donation))]
    /\ UNCHANGED <<sevas, schedule_slots, bookings, devotees, day_profiles, req, adm,
                   cat, readers, lodging, accounts, donations>>

\* the response has been delivered
donation_return ==
    /\ rcp.pc = "done"
    /\ rcp' = IdleRcp
    /\ UNCHANGED <<sevas, schedule_slots, bookings, devotees, day_profiles, req, adm,
                   cat, readers, lodging, accounts, donations>>

(* --------------------------------------------- create_accommodation_booking *)
\* A calendar date as datetime.strptime(s, "%Y-%m-%d") sees it.
IsLeap(y) == (y % 4 = 0 /\ y % 100 # 0) \/ y % 400 = 0

DaysInMonth(y, m) ==
    IF m = 2 THEN (IF IsLeap(y) THEN 29 ELSE 28)
    ELSE IF m \in {4, 6, 9, 11} THEN 30 ELSE 31

\* strptime raises ValueError for a day that is not in the calendar
strptime_ok(s) == s.m \in 1..12 /\ s.d \in 1..DaysInMonth(s.y, s.m)

RECURSIVE DaysBeforeMonth(_, _)
DaysBeforeMonth(y, m) ==
    IF m = 1 THEN 0 ELSE DaysBeforeMonth(y, m - 1) + DaysInMonth(y, m - 1)

\* date.toordinal(): the day number in the proleptic Gregorian calendar
toordinal(s) ==
    LET y == s.y - 1 IN
    y * 365 + y \div 4 - y \div 100 + y \div 400 + DaysBeforeMonth(s.y, s.m) + s.d

\* A variant that counts the nights inclusively.
num_days_inclusive(check_in_date, check_out_date) ==
    toordinal(check_out_date) - toordinal(check_in_date) + 1

\* (check_out - check_in).days
num_days(check_in_date, check_out_date) ==
    toordinal(check_out_date) - toordinal(check_in_date)

AccommodationNotFound == HTTPException(404, "Accommodation not found")
CheckOutNotAfterCheckIn == HTTPException(400, "Check-out must be after check-in")

IdleAcc ==
    [pc |-> "idle", data |-> None, user |-> None, accommodation |-> None,
     devotee |-> None, num_days |-> 0, resp |-> None]

\* the handler has returned or raised
RespondAcc(data, resp) == [IdleAcc EXCEPT !.pc = "done", !.data = data, !.resp = resp]

\* A variant that charges per stay, not per day.
new_accommodation_booking_flat(id, data, user, accommodation, days) ==
    [id |-> id,
     devotee_id |-> user.sub,
     accommodation_id |-> data.accommodation_id,
     check_in_date |-> data.check_in_date,
     check_out_date |-> data.check_out_date,
     num_days |-> days,
     num_rooms |-> data.num_rooms,
     num_guests |-> data.num_guests,
     amount |-> accommodation.price_per_day * data.num_rooms,
     payment_status |-> "Paid",
     status |-> "Confirmed"]

\* the booking document built at lines 626-640
new_accommodation_booking(id, data, user, accommodation, days) ==
    [id |-> id,
     devotee_id |-> user.sub,
     accommodation_id |-> data.accommodation_id,
     check_in_date |-> data.check_in_date,
     check_out_date |-> data.check_out_date,
     num_days |-> days,
     num_rooms |-> data.num_rooms,
     num_guests |-> data.num_guests,
     amount |-> accommodation.price_per_day * data.num_rooms * days,
     payment_status |-> "Paid",
     status |-> "Confirmed"]

\* the rooms of an accommodation taken by non-Cancelled bookings whose stay
\* overlaps [check_in, check_out)
RECURSIVE rooms_taken(_, _, _, _)
rooms_taken(stays, accommodation_id, check_in, check_out) ==
    IF stays = <<>> THEN 0
    ELSE LET b == Head(stays)
             overlaps == /\ b.accommodation_id = accommodation_id
                         /\ b.status # "Cancelled"
                         /\ toordinal(b.check_in_date) < check_out
                         /\ check_in < toordinal(b.check_out_date)
         IN (IF overlaps THEN b.num_rooms ELSE 0)
                + rooms_taken(Tail(stays), accommodation_id, check_in, check_out)

\* the request arrives: Depends(get_current_devotee) runs before the handler
create_accommodation_booking_begin(in) ==
    /\ acc.pc = "idle"
    /\ Len(accommodation_bookings) < MaxStays
    /\ \E data \in in.stays, credentials \in in.credentials :
        LET auth == get_current_devotee(credentials) IN
        acc' = IF auth.status_code # 200 THEN RespondAcc(data, auth)
               ELSE [IdleAcc EXCEPT !.pc = "find_accommodation", !.data = data,
                                    !.user = auth.body]
    /\ UNCHANGED <<sevas, schedule_slots, bookings, devotees, day_profiles, req, adm,
                   cat, readers,
                   accommodations, accommodation_bookings, accounts, giving>>

\* acc = await db.accommodations.find_one(...); if not acc: raise 404
create_accommodation_booking_find_accommodation ==
    /\ acc.pc = "find_accommodation"
    /\ LET accommodation == find_one(accommodations, acc.data.accommodation_id) IN
        acc' = IF accommodation = None
                   THEN RespondAcc(acc.data, AccommodationNotFound)
               ELSE [acc EXCEPT !.pc = "find_devotee", !.accommodation = accommodation]
    /\ UNCHANGED <<sevas, schedule_slots, bookings, devotees, day_profiles, req, adm,
                   cat, readers,
                   accommodations, accommodation_bookings, accounts, giving>>

\* devotee = await db.devotees.find_one(...); the dates are parsed (ValueError
\* is an unhandled 500), the stay length is checked, and the document is built
\* (devotee.get on None is an unhandled 500)
create_accommodation_booking_find_devotee ==
    /\ acc.pc = "find_devotee"
    /\ LET devotee == find_one(devotees, acc.user.sub)
           data == acc.data
       IN
        acc' = IF ~strptime_ok(data.check_in_date) \/ ~strptime_ok(data.check_out_date)
                   THEN RespondAcc(data, InternalServerError)
               ELSE IF num_days(data.check_in_date, data.check_out_date) < 1
                   THEN RespondAcc(data, CheckOutNotAfterCheckIn)
               ELSE IF devotee = None
                   THEN RespondAcc(data, InternalServerError)
               ELSE [acc EXCEPT !.pc = "insert", !.devotee = devotee,
                                !.num_days = num_days(data.check_in_date,
                                                      data.check_out_date)]
    /\ UNCHANGED <<sevas, schedule_slots, bookings, devotees, day_profiles, req, adm,
                   cat, readers,
                   accommodations, accommodation_bookings, accounts, giving>>

\* A variant that admits only while rooms are left for the stay.
create_accommodation_booking_insert_guarded ==
    /\ acc.pc = "insert"
    /\ LET booking == new_accommodation_booking(Len(accommodation_bookings) + 1,
                            acc.data, acc.user, acc.accommodation, acc.num_days)
           taken == rooms_taken(accommodation_bookings, acc.data.accommodation_id,
                                toordinal(acc.data.check_in_date),
                                toordinal(acc.data.check_out_date))
       IN
        IF taken + acc.data.num_rooms > acc.accommodation.total_rooms
            THEN /\ acc' = RespondAcc(acc.data, NoSlotsAvailable)
                 /\ UNCHANGED accommodation_bookings
        ELSE /\ accommodation_bookings' = Append(accommodation_bookings, booking)
             /\ acc' = RespondAcc(acc.data,
                          Ok([id |-> booking.id, num_days |-> booking.num_days,
                              amount |-> booking.amount]))
    /\ UNCHANGED <<sevas, schedule_slots, bookings, devotees, day_profiles, req, adm,
                   cat, readers,
                   accommodations, accounts, giving>>

\* await db.accommodation_bookings.insert_one(booking); return booking
create_accommodation_booking_insert ==
    /\ acc.pc = "insert"
    /\ LET booking == new_accommodation_booking(Len(accommodation_bookings) + 1,
                            acc.data, acc.user, acc.accommodation, acc.num_days)
       IN
        /\ accommodation_bookings' = Append(accommodation_bookings, booking)
        /\ acc' = RespondAcc(acc.data,
                     Ok([id |-> booking.id, num_days |-> booking.num_days,
                         amount |-> booking.amount]))
    /\ UNCHANGED <<sevas, schedule_slots, bookings, devotees, day_profiles, req, adm,
                   cat, readers,
                   accommodations, accounts, giving>>

\* the response has been delivered
create_accommodation_booking_return ==
    /\ acc.pc = "done"
    /\ acc' = IdleAcc
    /\ UNCHANGED <<sevas, schedule_slots, bookings, devotees, day_profiles, req, adm,
                   cat, readers,
                   accommodations, accommodation_bookings, accounts, giving>>

\* Depends(get_current_admin), the empty-update check, then
\* await db.accommodations.update_one(...); the match count is not looked at
update_accommodation_update(in) ==
    /\ cat.pc = "idle"
    /\ \E acc_id \in in.acc_ids, data \in in.acc_updates, credentials \in in.staff :
        LET auth == get_current_admin(credentials)
            call == [pc |-> "find", op |-> "update_accommodation", id |-> acc_id,
                     data |-> data, credentials |-> credentials,
                     resp |-> None]
        IN
        IF auth.status_code # 200
            THEN /\ cat' = [call EXCEPT !.pc = "done", !.resp = auth]
                 /\ UNCHANGED accommodations
        ELSE IF DOMAIN update_data(data) = {}
            THEN /\ cat' = [call EXCEPT !.pc = "done", !.resp = NoFieldsToUpdate]
                 /\ UNCHANGED accommodations
        ELSE /\ accommodations' = update_one(accommodations, acc_id, update_data(data))
             /\ cat' = call
    /\ UNCHANGED <<sevas, schedule_slots, bookings, devotees, day_profiles, req, adm,
                   readers,
                   accommodation_bookings, acc, accounts, giving>>

\* return await db.accommodations.find_one({"id": acc_id})
update_accommodation_find ==
    /\ cat.pc = "find"
    /\ cat.op = "update_accommodation"
    /\ cat' = [cat EXCEPT !.pc = "done", !.resp = Ok(find_one(accommodations, cat.id))]
    /\ UNCHANGED <<sevas, schedule_slots, bookings, devotees, day_profiles, req, adm,
                   readers, lodging, accounts, giving>>

(* ----------------------------------------------------------- specifications *)
\* A seeded catalog: two sevas, one slot per seva, no bookings yet.
IdleReg == [pc |-> "idle", data |-> None, resp |-> None]

IdleSd == [pc |-> "idle", resp |-> None]

SeedSevas ==
    [s \in SevaIds |->
        [id |-> s,
         name_english |-> IF s = "sevaA" THEN "Abhishekam" ELSE "Archana",
         name_telugu |-> IF s = "sevaA" THEN "Abhishekam-te" ELSE "Archana-te",
         base_price |-> IF s = "sevaA" THEN 500 ELSE 100,
         max_persons_per_ticket |-> IF s = "sevaA" THEN MaxPersons ELSE 1,
         is_paroksha_available |-> (s = "sevaA"),
         special_instructions |-> "Arrive 15 minutes before",
         active_flag |-> TRUE]]

SeedSlots(quota) ==
    [s \in SlotIds |->
        [id |-> s, seva_id |-> IF s = "slot1" THEN "sevaA" ELSE "sevaB",
         date |-> None,
         start_time |-> IF s = "slot1" THEN "06:00" ELSE "07:00",
         end_time |-> IF s = "slot1" THEN "07:00" ELSE "08:00",
         online_quota |-> quota[s]]]

Mobiles == {"m1", "m2"}

\* the devotee documents of devotee_register; dev1 has mobile m1, dev2 has m2
Devotee(id) ==
    [id |-> id, name |-> "Devotee " \o id, mobile |-> IF id = "dev1" THEN "m1" ELSE "m2"]

SeedDevotees == [d \in DevoteeIds |-> Devotee(d)]

SeedProfiles ==
    [p \in ProfileIds |->
        [id |-> p, name |-> "Normal Day", description |-> "Regular weekday schedule",
         is_special_day_flag |-> FALSE]]

SeedAccommodations ==
    [a \in AccIds |->
        [id |-> a, name |-> "Nandi Cottage", room_type |-> "Cottage",
         price_per_day |-> 500, total_rooms |-> 2]]

(* ---------------------------------------------------------------- seed_data *)
AlreadySeeded == Ok([message |-> "Data already seeded"])
SeedCreated == Ok([message |-> "Seed data created successfully"])

\* insert_many(docs): the seeded documents join the collection
insert_many(coll, docs) ==
    [k \in DOMAIN coll \cup DOMAIN docs |-> IF k \in DOMAIN docs THEN docs[k] ELSE coll[k]]

\* admin_exists = await db.user_accounts.find_one({"username": "admin"}); the
\* route has no Depends: any caller reaches it
seed_data_find_admin ==
    /\ sd.pc = "idle"
    /\ sd' = IF "admin" \in user_accounts
                THEN [sd EXCEPT !.pc = "done", !.resp = AlreadySeeded]
             ELSE [sd EXCEPT !.pc = "insert_admin"]
    /\ UNCHANGED <<sevas, schedule_slots, bookings, devotees, day_profiles, req, adm,
                   cat, readers, lodging, user_accounts, reg, giving>>

\* await db.user_accounts.insert_one(admin)
seed_data_insert_admin ==
    /\ sd.pc = "insert_admin"
    /\ user_accounts' = user_accounts \cup {"admin"}
    /\ sd' = [sd EXCEPT !.pc = "insert_sevas"]
    /\ UNCHANGED <<sevas, schedule_slots, bookings, devotees, day_profiles, req, adm,
                   cat, readers, lodging, reg, giving>>

\* await db.sevas.insert_many(sevas)
seed_data_insert_sevas ==
    /\ sd.pc = "insert_sevas"
    /\ sevas' = insert_many(sevas, SeedSevas)
    /\ sd' = [sd EXCEPT !.pc = "insert_profiles"]
    /\ UNCHANGED <<schedule_slots, bookings, devotees, day_profiles, req, adm,
                   cat, readers, lodging, user_accounts, reg, giving>>

\* await db.day_profiles.insert_many(profiles)
seed_data_insert_profiles ==
    /\ sd.pc = "insert_profiles"
    /\ day_profiles' = insert_many(day_profiles, SeedProfiles)
    /\ sd' = [sd EXCEPT !.pc = "insert_slots"]
    /\ UNCHANGED <<sevas, schedule_slots, bookings, devotees, req, adm,
                   cat, readers, lodging, user_accounts, reg, giving>>

\* await db.schedule_slots.insert_many(slots)
seed_data_insert_slots ==
    /\ sd.pc = "insert_slots"
    /\ schedule_slots' = insert_many(schedule_slots, SeedSlots([s \in SlotIds |-> MaxQuota]))
    /\ sd' = [sd EXCEPT !.pc = "insert_accommodations"]
    /\ UNCHANGED <<sevas, bookings, devotees, day_profiles, req, adm,
                   cat, readers, lodging, user_accounts, reg, giving>>

\* await db.accommodations.insert_many(accommodations)
seed_data_insert_accommodations ==
    /\ sd.pc = "insert_accommodations"
    /\ accommodations' = insert_many(accommodations, SeedAccommodations)
    /\ sd' = [sd EXCEPT !.pc = "insert_content"]
    /\ UNCHANGED <<sevas, schedule_slots, bookings, devotees, day_profiles, req, adm,
                   cat, readers, accommodation_bookings, acc, user_accounts, reg, giving>>

\* the inserts into news, gallery, live_streams and visitor_stats, then the
\* summary as the response
seed_data_insert_content ==
    /\ sd.pc = "insert_content"
    /\ sd' = [sd EXCEPT !.pc = "done", !.resp = SeedCreated]
    /\ UNCHANGED <<sevas, schedule_slots, bookings, devotees, day_profiles, req, adm,
                   cat, readers, lodging, user_accounts, reg, giving>>

\* the response has been delivered
seed_data_return ==
    /\ sd.pc = "done"
    /\ sd' = IdleSd
    /\ UNCHANGED <<sevas, schedule_slots, bookings, devotees, day_profiles, req, adm,
                   cat, readers, lodging, user_accounts, reg, giving>>

seed_data ==
    \/ seed_data_find_admin
    \/ seed_data_insert_admin
    \/ seed_data_insert_sevas
    \/ seed_data_insert_profiles
    \/ seed_data_insert_slots
    \/ seed_data_insert_accommodations
    \/ seed_data_insert_content
    \/ seed_data_return

(* ------------------------------------------------------- devotee_register *)
MobileAlreadyRegistered == HTTPException(400, "Mobile already registered")

\* the body of DevoteeRegister that the model reads
DevoteeRegister(names, mobiles) == [name : names, mobile : mobiles]

\* db.devotees.find_one({"mobile": mobile})
find_one_by_mobile(devs, mobile) ==
    IF \E d \in DOMAIN devs : devs[d].mobile = mobile
        THEN devs[CHOOSE d \in DOMAIN devs : devs[d].mobile = mobile]
        ELSE None

\* str(uuid.uuid4()) of a new devotee: an id no stored devotee carries
new_devotee_id(devs) == "reg" \o ToString(Cardinality(DOMAIN devs) + 1)

\* the request arrives; the handler has no dependency
devotee_register_begin(g, in) ==
    /\ reg[g].pc = "idle"
    /\ Cardinality(DOMAIN devotees) < MaxDevotees
    /\ \E data \in in.registrations :
        reg' = [reg EXCEPT ![g] = [pc |-> "find", data |-> data, resp |-> None]]
    /\ UNCHANGED <<sevas, schedule_slots, bookings, devotees, day_profiles, req, adm, cat,
                   readers, lodging, user_accounts, sd, giving>>

\* existing = await db.devotees.find_one({"mobile": data.mobile}); if existing: 400
devotee_register_find(g) ==
    /\ reg[g].pc = "find"
    /\ LET existing == find_one_by_mobile(devotees, reg[g].data.mobile) IN
        reg' = [reg EXCEPT ![g].pc = IF existing # None THEN "done" ELSE "insert",
                           ![g].resp = IF existing # None
                                           THEN MobileAlreadyRegistered ELSE None]
    /\ UNCHANGED <<sevas, schedule_slots, bookings, devotees, day_profiles, req, adm, cat,
                   readers, lodging, user_accounts, sd, giving>>

\* await db.devotees.insert_one(devotee); return {"token": .., "devotee": ..}
devotee_register_insert(g) ==
    /\ reg[g].pc = "insert"
    /\ LET id == new_devotee_id(devotees)
           devotee == [id |-> id, name |-> reg[g].data.name, mobile |-> reg[g].data.mobile]
       IN
        /\ devotees' = (id :> devotee) @@ devotees
        /\ reg' = [reg EXCEPT ![g].pc = "done",
                              ![g].resp = Ok([token |-> [kind |-> "valid",
                                                         role |-> "devotee", sub |-> id],
                                              devotee |-> devotee])]
    /\ UNCHANGED <<sevas, schedule_slots, bookings, day_profiles, req, adm, cat,
                   readers, lodging, user_accounts, sd, giving>>

\* the response has been delivered
devotee_register_return(g) ==
    /\ reg[g].pc = "done"
    /\ reg' = [reg EXCEPT ![g] = IdleReg]
    /\ UNCHANGED <<sevas, schedule_slots, bookings, devotees, day_profiles, req, adm, cat,
                   readers, lodging, user_accounts, sd, giving>>

\* the steps of the handler after the request has arrived
devotee_register(g) ==
    \/ devotee_register_find(g)
    \/ devotee_register_insert(g)

\* the store after seed_data, with the devotees devs registered
Populated(reqs, devs) ==
    /\ sevas = SeedSevas
    /\ devotees = [d \in devs |-> Devotee(d)]
    /\ day_profiles = SeedProfiles
    /\ bookings = <<>>
    /\ req = [r \in reqs |-> IdleReq]
    /\ adm = IdleAdm
    /\ cat = IdleCat
    /\ avl = IdleAvl
    /\ rdr = IdleRdr
    /\ accommodations = SeedAccommodations
    /\ accommodation_bookings = <<>>
    /\ acc = IdleAcc
    /\ lst = IdleLst
    /\ tkt = IdleTkt
    /\ user_accounts = {"admin"}
    /\ reg = [g \in reqs |-> IdleReg]
    /\ sd = IdleSd
    /\ donations = <<>>
    /\ rcp = IdleRcp

Seeded(reqs) == Populated(reqs, DevoteeIds)

\* Concurrent admissions on one slot, with staff status updates.
Init ==
    /\ Seeded(Reqs)
    /\ \E q \in 1..MaxQuota : schedule_slots = SeedSlots([s \in SlotIds |-> q])

Next ==
    \/ \E r \in Reqs : create_booking_begin(r, RaceInputs)
    \/ \E r \in Reqs : create_booking(r)
    \/ \E r \in Reqs : create_booking_return(r)
    \/ update_booking_status_update(RaceInputs)
    \/ update_booking_status_find
    \/ update_booking_status_return

Spec == Init /\ [][Next]_vars

\* One admission at a time, with every input, racing catalog administration.
InitAdmit ==
    /\ Seeded({1})
    /\ \E q \in 1..MaxQuota : schedule_slots = SeedSlots([s \in SlotIds |-> q])

NextAdmit ==
    \/ create_booking_begin(1, AdmitInputs)
    \/ create_booking(1)
    \/ create_booking_return(1)
    \/ update_seva_update(PriceInputs)
    \/ update_seva_find
    \/ catalog_return

SpecAdmit == InitAdmit /\ [][NextAdmit]_vars

\* A serial schedule: a handler starts only when no other is in flight and
\* every response has been delivered.
Quiet ==
    /\ adm.pc = "idle"
    /\ \A r \in DOMAIN req : req[r].pc = "idle"
    /\ cat.pc = "idle"
    /\ avl.pc = "idle"
    /\ rdr.pc = "idle"
    /\ acc.pc = "idle"
    /\ lst.pc = "idle"
    /\ tkt.pc = "idle"
    /\ \A g \in DOMAIN reg : reg[g].pc = "idle"
    /\ sd.pc = "idle"
    /\ rcp.pc = "idle"

Serial(in) ==
    \/ Quiet /\ create_booking_begin(1, in)
    \/ create_booking(1)
    \/ create_booking_return(1)
    \/ Quiet /\ update_booking_status_update(in)
    \/ update_booking_status_find
    \/ update_booking_status_return

InitSerial == InitAdmit

NextSerial == Serial(SerialInputs)

SpecSerial == InitSerial /\ [][NextSerial]_vars

\* The same schedule with every status value and every kind of credentials.
InitStatus ==
    /\ Seeded({1})
    /\ schedule_slots = SeedSlots([s \in SlotIds |-> MaxQuota])

NextStatus == Serial(StatusUpdateInputs)

SpecStatus == InitStatus /\ [][NextStatus]_vars

\* The stress test: StressReqs valid requests for one (slot, date) that is
\* empty and has fewer places than there are requests; nothing else runs.
StressData ==
    [seva_id |-> "sevaA", slot_id |-> "slot1", for_date |-> "d1", number_of_persons |-> 1]

InitStress ==
    /\ sevas = SeedSevas
    /\ devotees = SeedDevotees
    /\ day_profiles = SeedProfiles
    /\ bookings = <<>>
    /\ adm = IdleAdm
    /\ cat = IdleCat
    /\ avl = IdleAvl
    /\ rdr = IdleRdr
    /\ accommodations = SeedAccommodations
    /\ accommodation_bookings = <<>>
    /\ acc = IdleAcc
    /\ lst = IdleLst
    /\ tkt = IdleTkt
    /\ user_accounts = {"admin"}
    /\ reg = [g \in {1} |-> IdleReg]
    /\ sd = IdleSd
    /\ donations = <<>>
    /\ rcp = IdleRcp
    /\ \E q \in 1..(StressReqs - 1) : schedule_slots = SeedSlots([s \in SlotIds |-> q])
    /\ req = [r \in 1..StressReqs |->
                [IdleReq EXCEPT !.pc = "find_seva", !.data = StressData,
                                !.credentials = [kind |-> "valid", role |-> "devotee",
                                                 sub |-> "dev1"],
                                !.user = [sub |-> "dev1", role |-> "devotee"]]]

NextStress == \E r \in 1..StressReqs : create_booking(r)

SpecStress == InitStress /\ [][NextStress]_vars

\* the event loop runs every task that is ready
FairStress == SpecStress /\ \A r \in 1..StressReqs : WF_vars(create_booking(r))

\* Availability queries on catalogs with recurring and dated slots, between
\* admissions and cancellations, one handler at a time.
DatedSlots ==
    {[s \in SlotIds |->
        [id |-> s, seva_id |-> IF s = "slot1" THEN "sevaA" ELSE seva_id,
         date |-> IF s = "slot1" THEN date1 ELSE date2,
         start_time |-> "06:00", end_time |-> "07:00",
         online_quota |-> IF s = "slot1" THEN q ELSE 1]] :
        seva_id \in SevaIds, date1 \in {None, Some("d1")},
        date2 \in {None, Some(""), Some("d2")}, q \in 1..MaxQuota}

InitAvailable ==
    /\ Seeded({1})
    /\ schedule_slots \in DatedSlots

NextAvailable ==
    \/ Serial(AvailableInputs)
    \/ Quiet /\ get_available_slots_find(AvailableInputs)
    \/ get_available_slots_count
    \/ get_available_slots_return

SpecAvailable == InitAvailable /\ [][NextAvailable]_vars

\* Availability queries racing admissions: both slots are recurring slots of
\* one seva, and nothing but the admissions writes to the store.
InitQuery ==
    /\ Seeded({1})
    /\ \E q \in 1..MaxQuota :
        schedule_slots =
            [s \in SlotIds |-> [SeedSlots([t \in SlotIds |-> q])[s]
                                    EXCEPT !.seva_id = "sevaA"]]

NextQuery ==
    \/ create_booking_begin(1, QueryInputs)
    \/ create_booking(1)
    \/ create_booking_return(1)
    \/ get_available_slots_find(QueryInputs)
    \/ get_available_slots_count
    \/ get_available_slots_return

SpecQuery == InitQuery /\ [][NextQuery]_vars

\* Accommodation admissions, one at a time, racing a change of the price.
InitLodging ==
    /\ Seeded({1})
    /\ schedule_slots = SeedSlots([s \in SlotIds |-> MaxQuota])

NextLodging ==
    \/ create_accommodation_booking_begin(LodgingInputs)
    \/ create_accommodation_booking_find_accommodation
    \/ create_accommodation_booking_find_devotee
    \/ create_accommodation_booking_insert
    \/ create_accommodation_booking_return
    \/ update_accommodation_update(LodgingInputs)
    \/ update_accommodation_find
    \/ catalog_return

SpecLodging == InitLodging /\ [][NextLodging]_vars

\* Catalog administration between admissions, one handler at a time.
InitCatalog ==
    /\ Seeded({1})
    /\ schedule_slots = SeedSlots([s \in SlotIds |-> 1])

NextCatalog ==
    \/ Quiet /\ create_booking_begin(1, CatalogInputs)
    \/ create_booking(1)
    \/ create_booking_return(1)
    \/ Quiet /\ update_seva_update(CatalogInputs)
    \/ update_seva_find
    \/ Quiet /\ delete_seva(CatalogInputs)
    \/ Quiet /\ update_schedule_slot_update(CatalogInputs)
    \/ update_schedule_slot_find
    \/ Quiet /\ delete_schedule_slot(CatalogInputs)
    \/ Quiet /\ update_day_profile_update(CatalogInputs)
    \/ update_day_profile_find
    \/ Quiet /\ update_accommodation_update(CatalogInputs)
    \/ update_accommodation_find
    \/ catalog_return

SpecCatalog == InitCatalog /\ [][NextCatalog]_vars

\* Admissions, cancellations and reads, one handler at a time, with the seva
\* and the slot of the bookings renamed, repriced, moved and deleted.
InitHistory == InitCatalog

NextHistory ==
    \/ Serial(HistoryInputs)
    \/ Quiet /\ update_seva_update(HistoryInputs)
    \/ update_seva_find
    \/ Quiet /\ delete_seva(HistoryInputs)
    \/ Quiet /\ update_schedule_slot_update(HistoryInputs)
    \/ update_schedule_slot_find
    \/ Quiet /\ delete_schedule_slot(HistoryInputs)
    \/ catalog_return
    \/ Quiet /\ get_available_slots_find(HistoryInputs)
    \/ get_available_slots_count
    \/ get_available_slots_return
    \/ Quiet /\ get_booking(HistoryInputs)
    \/ get_booking_return

SpecHistory == InitHistory /\ [][NextHistory]_vars

\* The public listing and get-by-id racing staff who deactivate, reactivate
\* and delete sevas.
InitListing ==
    /\ Seeded({1})
    /\ schedule_slots = SeedSlots([s \in SlotIds |-> 1])

NextListing ==
    \/ list_sevas(ListingInputs)
    \/ get_seva(ListingInputs)
    \/ listing_return
    \/ update_seva_update(ListingInputs)
    \/ update_seva_find
    \/ delete_seva(ListingInputs)
    \/ catalog_return

SpecListing == InitListing /\ [][NextListing]_vars

\* Ticket lookups racing the admissions of two devotees.
InitTicket ==
    /\ Populated({1, 2}, {"dev1", "dev2"})
    /\ schedule_slots = SeedSlots([s \in SlotIds |-> MaxQuota])

NextTicket ==
    \/ \E r \in {1, 2} : create_booking_begin(r, TicketInputs)
    \/ \E r \in {1, 2} : create_booking(r)
    \/ \E r \in {1, 2} : create_booking_return(r)
    \/ lookup_ticket_begin(TicketInputs)
    \/ lookup_ticket_find_one
    \/ lookup_ticket_find
    \/ lookup_ticket_return

SpecTicket == InitTicket /\ [][NextTicket]_vars

\* Admissions and status updates, one at a time, with every kind of credentials.
InitGate == InitAdmit

NextGate == Serial(GateInputs)

SpecGate == InitGate /\ [][NextGate]_vars

\* The database as the application finds it at first start: every collection
\* empty. Anyone may call the seed route; staff and others call the catalog
\* routes.
InitSeed ==
    /\ sevas = <<>>
    /\ schedule_slots = <<>>
    /\ day_profiles = <<>>
    /\ devotees = <<>>
    /\ bookings = <<>>
    /\ accommodations = <<>>
    /\ accommodation_bookings = <<>>
    /\ donations = <<>>
    /\ user_accounts = {}
    /\ req = [r \in {1} |-> IdleReq]
    /\ reg = [g \in {1} |-> IdleReg]
    /\ adm = IdleAdm
    /\ cat = IdleCat
    /\ avl = IdleAvl
    /\ rdr = IdleRdr
    /\ acc = IdleAcc
    /\ lst = IdleLst
    /\ tkt = IdleTkt
    /\ sd = IdleSd
    /\ rcp = IdleRcp

NextSeed ==
    \/ seed_data
    \/ create_seva(SeedInputs)
    \/ update_seva_update(SeedInputs)
    \/ update_seva_find
    \/ delete_seva(SeedInputs)
    \/ create_day_profile(SeedInputs)
    \/ update_day_profile_update(SeedInputs)
    \/ update_day_profile_find
    \/ delete_day_profile(SeedInputs)
    \/ create_schedule_slot(SeedInputs)
    \/ update_schedule_slot_update(SeedInputs)
    \/ update_schedule_slot_find
    \/ delete_schedule_slot(SeedInputs)
    \/ catalog_return

SpecSeed == InitSeed /\ [][NextSeed]_vars

\* Donations of every amount, and their receipts.
InitDonation ==
    /\ Seeded({1})
    /\ schedule_slots = SeedSlots([s \in SlotIds |-> 1])

NextDonation ==
    \/ create_donation(DonationInputs)
    \/ get_donation_receipt(DonationInputs)
    \/ donation_return

SpecDonation == InitDonation /\ [][NextDonation]_vars

\* Admissions racing one another, cancellations and availability queries on
\* a slot with one place; each client sends one request.
InitBusy ==
    /\ Seeded(Reqs)
    /\ schedule_slots = SeedSlots([s \in SlotIds |-> 1])

NextBusy ==
    \/ \E r \in Reqs : create_booking_begin(r, BusyInputs)
    \/ \E r \in Reqs : create_booking(r)
    \/ update_booking_status_update(BusyInputs)
    \/ update_booking_status_find
    \/ update_booking_status_return
    \/ get_available_slots_find(BusyInputs)
    \/ get_available_slots_count
    \/ get_available_slots_return

SpecBusy == InitBusy /\ [][NextBusy]_vars

\* the event loop runs every task that is ready, and every store call returns
FairBusy == SpecBusy /\ \A r \in Reqs : WF_vars(create_booking(r))

(* ------------------------------------------------------------ observations *)
\* the request has been answered with the booking it created
Admitted(q) == q.pc = "done" /\ q.resp.status_code = 200

\* the request has been answered with the given error
Rejected(q, error) == q.pc = "done" /\ q.resp = error

\* the number of non-Cancelled bookings of a (slot, date) pair
NonCancelled(bks, slot_id, for_date) ==
    Cardinality({i \in DOMAIN bks :
        /\ bks[i].slot_id = slot_id
        /\ bks[i].for_date = for_date
        /\ bks[i].status # "Cancelled"})

Occupancy(slot_id, for_date) == NonCancelled(bookings, slot_id, for_date)

Quota(slot_id) == schedule_slots[slot_id].online_quota

(* ------------------------------------------------------------------ claims *)
\* C1: in every reachable state, for every (slot id, for_date) pair, the number
\* of bookings of that pair whose status is not Cancelled is at most the slot's
\* online_quota, whatever the interleaving of create_booking requests.
CapacityInvariant ==
    \A slot_id \in DOMAIN schedule_slots, for_date \in Dates :
        Occupancy(slot_id, for_date) <= Quota(slot_id)

\* C2: when N > online_quota valid requests for one empty (slot, for_date) run
\* concurrently, exactly online_quota of them are admitted and the other
\* N - online_quota are rejected as capacity exhausted.
StressAdmitsExactlyQuota ==
    (\A r \in DOMAIN req : req[r].pc = "done") =>
        /\ Cardinality({r \in DOMAIN req : Admitted(req[r])}) = Quota("slot1")
        /\ Cardinality({r \in DOMAIN req : Rejected(req[r], NoSlotsAvailable)})
                = StressReqs - Quota("slot1")

\* Two requests for the same pair have both passed the occupancy count, neither
\* has inserted, and the pair has exactly one place left.
RaceWindow(r1, r2) ==
    /\ r1 # r2
    /\ req[r1].pc \in {"find_devotee", "insert"}
    /\ req[r2].pc \in {"find_devotee", "insert"}
    /\ req[r1].data.slot_id = req[r2].data.slot_id
    /\ req[r1].data.for_date = req[r2].data.for_date
    /\ Occupancy(req[r1].data.slot_id, req[r1].data.for_date)
            = Quota(req[r1].data.slot_id) - 1

BothAdmittedOverQuota(r1, r2) ==
    /\ r1 # r2
    /\ Admitted(req[r1])
    /\ Admitted(req[r2])
    /\ req[r1].data.slot_id = req[r2].data.slot_id
    /\ req[r1].data.for_date = req[r2].data.for_date
    /\ Occupancy(req[r1].data.slot_id, req[r1].data.for_date)
            > Quota(req[r1].data.slot_id)

\* C3: two concurrent requests for the same (slot, for_date) with one place left
\* can both run the occupancy count before either inserts; both are then
\* admitted and the pair holds more non-Cancelled bookings than online_quota.
RaceLeadsToOverbooking ==
    \A r1, r2 \in 1..StressReqs :
        RaceWindow(r1, r2) ~> BothAdmittedOverQuota(r1, r2)

RaceOverbooked == \E r1, r2 \in DOMAIN req : BothAdmittedOverQuota(r1, r2)

\* request r takes a step of its handler
Step(r) == req'[r] # req[r]

\* C4: whenever create_booking ends in a failure of any kind, the bookings
\* collection after the request is the one before it: every step of the handler
\* other than the insert that ends an admitted request leaves bookings as they
\* are, and a request that fails never takes that step.
FailedAdmissionWritesNothing ==
    [][\A r \in DOMAIN req :
        Step(r) /\ ~(req[r].pc = "insert" /\ Admitted(req'[r]))
            => bookings' = bookings]_vars

RejectedOnFullSlot ==
    \E r \in DOMAIN req :
        /\ Rejected(req[r], NoSlotsAvailable)
        /\ Occupancy(req[r].data.slot_id, req[r].data.for_date) >= 1

\* C5: with the seva and the slot resolved, create_booking passes the
\* person-count check exactly when 1 <= number_of_persons <=
\* max_persons_per_ticket of the seva it read, and fails with the 400 that
\* carries the allowed range otherwise (0 and max + 1 fail, max passes).
PersonCountCheck ==
    [][\A r \in DOMAIN req :
        (/\ Step(r)
         /\ req[r].pc = "find_slot"
         /\ req[r].data.slot_id \in DOMAIN schedule_slots)
        => LET n == req[r].data.number_of_persons
               max == req[r].seva.max_persons_per_ticket
           IN IF 1 <= n /\ n <= max
                  THEN req'[r].pc = "count"
                  ELSE Rejected(req'[r], [status_code |-> 400,
                                          detail |-> "Number of persons must be 1-",
                                          max |-> max])]_vars

RejectedAboveMaxPersons ==
    \E r \in DOMAIN req :
        /\ req[r].pc = "done"
        /\ req[r].resp.status_code = 400
        /\ req[r].resp.detail = "Number of persons must be 1-"
        /\ req[r].data.number_of_persons = req[r].resp.max + 1

\* the position after each await of the handler
NextPc(pc) ==
    CASE pc = "find_seva" -> "find_slot"
      [] pc = "find_slot" -> "count"
      [] pc = "count" -> "find_devotee"
      [] pc = "find_devotee" -> "insert"
      [] OTHER -> "done"

\* C8: create_booking checks seva, slot, person count and capacity in this
\* order and reports the first check that fails: an absent seva gives 404
\* whatever the slot, the person count and the occupancy are; an absent slot
\* gives 404 whatever the person count is; an out-of-range person count gives
\* its own 400 even when the slot is full.
ValidationOrder ==
    [][\A r \in DOMAIN req :
        (Step(r) /\ req[r].pc \notin {"idle", "done"})
        => LET data == req[r].data
               full == /\ data.slot_id \in DOMAIN schedule_slots
                       /\ Occupancy(data.slot_id, data.for_date) >= Quota(data.slot_id)
           IN /\ req'[r].pc \in {NextPc(req[r].pc), "done"}
              /\ (req[r].pc = "find_seva" /\ data.seva_id \notin DOMAIN sevas)
                    => Rejected(req'[r], SevaNotFound)
              /\ (req[r].pc = "find_slot" /\ data.slot_id \notin DOMAIN schedule_slots)
                    => Rejected(req'[r], SlotNotFound)
              /\ (/\ req[r].pc = "find_slot"
                  /\ data.slot_id \in DOMAIN schedule_slots
                  /\ ~(1 <= data.number_of_persons
                        /\ data.number_of_persons <= req[r].seva.max_persons_per_ticket))
                    => /\ req'[r].pc = "done"
                       /\ req'[r].resp.status_code = 400
                       /\ req'[r].resp # NoSlotsAvailable
              /\ Rejected(req'[r], NoSlotsAvailable)
                    => req[r].pc = "count" /\ full]_vars

SevaNotFoundBeforeOtherChecks ==
    \E r \in DOMAIN req :
        /\ Rejected(req[r], SevaNotFound)
        /\ req[r].data.slot_id \notin DOMAIN schedule_slots
        /\ req[r].data.number_of_persons = 0

\* C9: every booking inserted by create_booking is appended with status
\* Confirmed and payment_status Paid, with the request's slot_id, for_date and
\* number_of_persons, the token subject as devotee_id and the base_price of the
\* seva as that request read it as amount; no admission inserts Pending.
InsertedBookingFields ==
    [][\A r \in DOMAIN req :
        (Step(r) /\ req[r].pc = "insert")
        => /\ Len(bookings') = Len(bookings) + 1
           /\ SubSeq(bookings', 1, Len(bookings)) = bookings
           /\ LET b == bookings'[Len(bookings')] IN
                /\ b.status = "Confirmed"
                /\ b.payment_status = "Paid"
                /\ b.seva_id = req[r].data.seva_id
                /\ b.slot_id = req[r].data.slot_id
                /\ b.for_date = req[r].data.for_date
                /\ b.number_of_persons = req[r].data.number_of_persons
                /\ b.devotee_id = req[r].user.sub
                /\ b.amount = req[r].seva.base_price
                /\ req'[r].resp = Ok(b.id)]_vars

\* a booking that kept the price its request read after the catalog changed
BookedAtPriceRead ==
    \E r \in DOMAIN req, i \in DOMAIN bookings :
        /\ Admitted(req[r])
        /\ bookings[i].id = req[r].resp.body
        /\ bookings[i].amount # sevas[bookings[i].seva_id].base_price

\* C6: a create_booking request that runs without interleaving, with a valid
\* seva, slot and person count, is rejected as capacity exhausted if and only
\* if the non-Cancelled bookings of (slot_id, for_date) number at least the
\* slot's online_quota; otherwise it is admitted and that number grows by one.
CapacityDecisionSerial ==
    [][\A r \in DOMAIN req :
        (Step(r) /\ req[r].pc \in {"count", "find_devotee", "insert"})
        => LET slot_id == req[r].data.slot_id
               for_date == req[r].data.for_date
               occupancy == Occupancy(slot_id, for_date)
           IN /\ req[r].pc = "count" =>
                    IF occupancy >= Quota(slot_id)
                        THEN Rejected(req'[r], NoSlotsAvailable) /\ bookings' = bookings
                        ELSE req'[r].pc = "find_devotee"
              /\ req[r].pc = "find_devotee" =>
                    occupancy < Quota(slot_id) /\ req'[r].pc = "insert"
              /\ req[r].pc = "insert" =>
                    /\ occupancy < Quota(slot_id)
                    /\ Admitted(req'[r])
                    /\ NonCancelled(bookings', slot_id, for_date) = occupancy + 1]_vars

RejectedAtQuota ==
    \E r \in DOMAIN req :
        /\ Rejected(req[r], NoSlotsAvailable)
        /\ Occupancy(req[r].data.slot_id, req[r].data.for_date)
                = Quota(req[r].data.slot_id)

\* C7: cancellation frees capacity. On a (slot, for_date) that holds
\* online_quota non-Cancelled bookings an admission is rejected; a staff update
\* that sets one of them to Cancelled leaves online_quota - 1; the next
\* admission passes the count and inserts a Confirmed booking, which fills the
\* pair again, so that the admission after it is rejected.
CancellationFreesCapacity ==
    [][/\ \A r \in DOMAIN req :
            (Step(r) /\ req[r].pc \in {"count", "insert"})
            => LET slot_id == req[r].data.slot_id
                   for_date == req[r].data.for_date
                   occupancy == Occupancy(slot_id, for_date)
               IN /\ (req[r].pc = "count" /\ occupancy = Quota(slot_id))
                        => Rejected(req'[r], NoSlotsAvailable)
                  /\ (req[r].pc = "count" /\ occupancy = Quota(slot_id) - 1)
                        => req'[r].pc = "find_devotee"
                  /\ (req[r].pc = "insert" /\ occupancy = Quota(slot_id) - 1)
                        => /\ Admitted(req'[r])
                           /\ bookings'[Len(bookings')].status = "Confirmed"
                           /\ NonCancelled(bookings', slot_id, for_date)
                                    = Quota(slot_id)
       /\ (adm.pc = "idle" /\ adm'.pc = "find" /\ adm'.status = "Cancelled")
            => \A i \in DOMAIN bookings :
                (/\ bookings[i].id = adm'.booking_id
                 /\ bookings[i].status # "Cancelled"
                 /\ Occupancy(bookings[i].slot_id, bookings[i].for_date)
                        = Quota(bookings[i].slot_id))
                => /\ bookings'[i].status = "Cancelled"
                   /\ NonCancelled(bookings', bookings[i].slot_id, bookings[i].for_date)
                        = Quota(bookings[i].slot_id) - 1]_vars

\* the pair was full, a booking was cancelled, a later booking took its place,
\* and the admission after that one has been rejected
RejectedAfterRefill ==
    \E r \in DOMAIN req, i, j \in DOMAIN bookings :
        /\ Rejected(req[r], NoSlotsAvailable)
        /\ i < j
        /\ bookings[i].status = "Cancelled"
        /\ bookings[j].status = "Confirmed"
        /\ bookings[i].slot_id = req[r].data.slot_id
        /\ bookings[i].for_date = req[r].data.for_date
        /\ bookings[j].slot_id = req[r].data.slot_id
        /\ bookings[j].for_date = req[r].data.for_date
        /\ Occupancy(req[r].data.slot_id, req[r].data.for_date)
                = Quota(req[r].data.slot_id)

\* C10: a staff status update with one of Pending, Confirmed, Completed,
\* Cancelled, NoShow sets that status on the addressed booking whatever its
\* current status is (no status is terminal); with any other value it fails
\* with 400 and the bookings keep their status.
StatusUpdateAnyToAny ==
    [][(adm.pc = "idle" /\ adm' # adm /\ adm'.credentials \in StaffTokens)
        => IF adm'.status \in {"Pending", "Confirmed", "Completed", "Cancelled", "NoShow"}
           THEN /\ adm'.pc = "find"
                /\ bookings' =
                     [i \in DOMAIN bookings |->
                        IF bookings[i].id = adm'.booking_id
                        THEN [bookings[i] EXCEPT !.status = adm'.status]
                        ELSE bookings[i]]
           ELSE /\ adm'.pc = "done"
                /\ adm'.resp.status_code = 400
                /\ bookings' = bookings]_vars

\* a booking that staff moved back from Confirmed to Pending, as the response
\* to that update shows it
RegressedToPending ==
    /\ adm.pc = "done"
    /\ adm.resp.status_code = 200
    /\ adm.resp.body # None
    /\ adm.resp.body.status = "Pending"
    /\ \E i \in DOMAIN bookings :
        bookings[i].id = adm.booking_id /\ bookings[i].status = "Pending"

\* the slots a query for (seva_id, date) is to return on the catalog as it is
\* and the bookings bks: the slots of the seva that are recurring or of that
\* date and have places left, each with its remaining_slots and booked_count
ExpectedOn(bks, seva_id, date, recurring) ==
    {[f \in DOMAIN schedule_slots[s] \cup {"remaining_slots", "booked_count"} |->
        IF f = "remaining_slots"
            THEN schedule_slots[s].online_quota - NonCancelled(bks, s, date)
        ELSE IF f = "booked_count" THEN NonCancelled(bks, s, date)
        ELSE schedule_slots[s][f]] :
     s \in {t \in DOMAIN schedule_slots :
                /\ schedule_slots[t].seva_id = seva_id
                /\ schedule_slots[t].date \in recurring \cup {[some |-> date]}
                /\ schedule_slots[t].online_quota - NonCancelled(bks, t, date) > 0}}

ExpectedAvailable(seva_id, date, recurring) ==
    ExpectedOn(bookings, seva_id, date, recurring)

Returned(q) == {q.resp.body[j] : j \in DOMAIN q.resp.body}

\* C11: a get_available_slots call for a seva id and a target date, on a store
\* that does not change during the call, returns exactly the slots of that seva
\* whose date is null or equal to the target date and for which online_quota
\* minus the non-Cancelled bookings of (slot, target date) is positive, each
\* carrying that difference as remaining_slots and the count as booked_count.
AvailabilityExact ==
    avl.pc = "done" =>
        /\ Returned(avl) = ExpectedAvailable(avl.seva_id, avl.date, {None})
        /\ Cardinality(Returned(avl)) = Len(avl.resp.body)

\* C12: get_available_slots is read-only. No step of a query, whatever its
\* arguments, changes the stored slots (the annotations are not written back),
\* the bookings or any other collection; and it reserves nothing: an admission
\* that counts after a query is rejected exactly when the non-Cancelled
\* bookings of its (slot, date) at that moment have reached the quota.
AvailabilityReadOnly ==
    [][/\ avl' # avl =>
            /\ schedule_slots' = schedule_slots
            /\ bookings' = bookings
            /\ sevas' = sevas
            /\ devotees' = devotees
            /\ day_profiles' = day_profiles
            /\ accommodations' = accommodations
            /\ accommodation_bookings' = accommodation_bookings
       /\ \A r \in DOMAIN req :
            (Step(r) /\ req[r].pc = "count")
            => (Rejected(req'[r], NoSlotsAvailable)
                    <=> Occupancy(req[r].data.slot_id, req[r].data.for_date)
                            >= Quota(req[r].data.slot_id))]_vars

\* a query that was answered with a place left on a slot, and a later admission
\* on that slot rejected because the place had gone in between
RejectedAfterAvailable ==
    /\ avl.pc = "done"
    /\ \E j \in DOMAIN avl.resp.body, r \in DOMAIN req :
        /\ avl.resp.body[j].remaining_slots >= 1
        /\ avl.resp.body[j].online_quota = Quota(avl.resp.body[j].id)
        /\ Rejected(req[r], NoSlotsAvailable)
        /\ req[r].data.slot_id = avl.resp.body[j].id
        /\ req[r].data.for_date = avl.date

\* C13: the availability result is a point-in-time computation. For a query
\* that runs concurrently with admissions there is one store state between its
\* arrival and its answer on which the availability is the returned list. (The
\* admissions only append to the bookings and nothing else writes, so the store
\* states of that interval are the prefixes of the bookings from the length at
\* arrival to the length at the answer.)
AvailabilityPointInTime ==
    [][(avl.pc # "done" /\ avl'.pc = "done") =>
        \E n \in avl'.arrived..Len(bookings') :
            Returned(avl') = ExpectedOn(SubSeq(bookings', 1, n), avl'.seva_id,
                                        avl'.date, {None})]_vars

\* the day of the year 2024 of the calendar dates of the requests
DayOfYear(date) ==
    CASE date = Feb28 -> 59
      [] date = Feb29 -> 60
      [] date = Mar01 -> 61

CalendarDates == {Feb28, Feb29, Mar01}

\* the accommodation request takes a step of its handler
StepAcc == acc' # acc

\* C14: for an existing accommodation, create_accommodation_booking fails with
\* 400 and writes nothing when check_out_date equals or precedes check_in_date,
\* and is admitted with num_days = 1 when check_out_date is the day after
\* check_in_date; every stored accommodation booking has num_days = check_out -
\* check_in in whole days, and num_days >= 1.
StayLengthCheck ==
    /\ [](\A i \in DOMAIN accommodation_bookings :
            LET b == accommodation_bookings[i] IN
            /\ b.num_days = DayOfYear(b.check_out_date) - DayOfYear(b.check_in_date)
            /\ b.num_days >= 1)
    /\ [][(/\ StepAcc
           /\ acc.pc = "find_devotee"
           /\ acc.data.check_in_date \in CalendarDates
           /\ acc.data.check_out_date \in CalendarDates)
          => LET days == DayOfYear(acc.data.check_out_date)
                            - DayOfYear(acc.data.check_in_date)
             IN IF days < 1
                    THEN /\ acc'.pc = "done"
                         /\ acc'.resp.status_code = 400
                         /\ accommodation_bookings' = accommodation_bookings
                ELSE acc'.pc = "insert" /\ acc'.num_days = days]_vars
    /\ [][(StepAcc /\ acc.pc = "insert")
          => /\ acc'.resp.status_code = 200
             /\ acc'.resp.body.num_days = acc.num_days
             /\ Len(accommodation_bookings') = Len(accommodation_bookings) + 1]_vars

\* a one-night stay is stored, and a request that leaves on the day it arrives
\* has been refused
SameDayStayRefused ==
    /\ acc.pc = "done"
    /\ acc.resp = [status_code |-> 400, detail |-> "Check-out must be after check-in"]
    /\ acc.data.check_in_date = acc.data.check_out_date
    /\ \E i \in DOMAIN accommodation_bookings :
        /\ accommodation_bookings[i].num_days = 1
        /\ accommodation_bookings[i].check_in_date = Feb29
        /\ accommodation_bookings[i].check_out_date = Mar01

\* C15: every accommodation booking create_accommodation_booking stores has
\* amount = price_per_day x num_rooms x num_days, with the price_per_day of the
\* accommodation as that request read it, status Confirmed and payment_status
\* Paid.
StayAmount ==
    [][(StepAcc /\ acc.pc = "insert")
        => /\ Len(accommodation_bookings') = Len(accommodation_bookings) + 1
           /\ LET b == accommodation_bookings'[Len(accommodation_bookings')] IN
                /\ b.amount = acc.accommodation.price_per_day * acc.data.num_rooms
                                * (DayOfYear(acc.data.check_out_date)
                                    - DayOfYear(acc.data.check_in_date))
                /\ b.num_rooms = acc.data.num_rooms
                /\ b.status = "Confirmed"
                /\ b.payment_status = "Paid"
                /\ acc'.resp.body.amount = b.amount]_vars

\* two rooms for two nights, stored at the price the request read although the
\* price has changed since
StayAtPriceRead ==
    \E i \in DOMAIN accommodation_bookings :
        LET b == accommodation_bookings[i] IN
        /\ b.num_rooms = 2
        /\ b.num_days = 2
        /\ b.amount = 2000
        /\ accommodations[b.accommodation_id].price_per_day = 100

\* C16: the accommodation admission checks no capacity. A request for an
\* existing accommodation with num_days >= 1 is admitted whatever bookings are
\* stored, so bookings of one accommodation with overlapping stays can hold
\* more rooms than its total_rooms, also when the requests come one by one.
StayAlwaysAdmitted ==
    [][(/\ StepAcc
        /\ acc.pc \in {"find_devotee", "insert"}
        /\ acc.data.check_in_date \in CalendarDates
        /\ acc.data.check_out_date \in CalendarDates
        /\ DayOfYear(acc.data.check_out_date) - DayOfYear(acc.data.check_in_date) >= 1)
        => IF acc.pc = "find_devotee" THEN acc'.pc = "insert"
           ELSE /\ acc'.pc = "done"
                /\ acc'.resp.status_code = 200
                /\ Len(accommodation_bookings') = Len(accommodation_bookings) + 1]_vars

\* two stored stays of one accommodation that overlap and together take more
\* rooms than the accommodation has
RoomsOverbooked ==
    \E i, j \in DOMAIN accommodation_bookings :
        LET b1 == accommodation_bookings[i]
            b2 == accommodation_bookings[j]
        IN
        /\ i < j
        /\ b1.accommodation_id = b2.accommodation_id
        /\ b1.status # "Cancelled" /\ b2.status # "Cancelled"
        /\ DayOfYear(b1.check_in_date) < DayOfYear(b2.check_out_date)
        /\ DayOfYear(b2.check_in_date) < DayOfYear(b1.check_out_date)
        /\ b1.num_rooms + b2.num_rooms
                > accommodations[b1.accommodation_id].total_rooms

\* the staff request starts, with credentials that pass the gate
CatalogCall(ops) ==
    /\ cat.pc = "idle"
    /\ cat' # cat
    /\ cat'.op \in ops
    /\ cat'.resp = None \/ cat'.resp.status_code # 401

\* the non-null fields of an update request
Supplied(data) == {f \in DOMAIN data : data[f] # None}

\* coll2 is coll with exactly the supplied fields of document id overwritten
Patched(coll, coll2, id, data) ==
    /\ DOMAIN coll2 = DOMAIN coll
    /\ \A k \in DOMAIN coll \ {id} : coll2[k] = coll[k]
    /\ DOMAIN coll2[id] = DOMAIN coll[id] \cup Supplied(data)
    /\ \A f \in Supplied(data) : coll2[id][f] = data[f].some
    /\ \A f \in DOMAIN coll[id] \ Supplied(data) : coll2[id][f] = coll[id][f]

\* what an update request for document id of coll may do to the store
PartialUpdate(coll, coll2, id, data) ==
    IF Supplied(data) = {}
        THEN cat'.pc = "done" /\ cat'.resp.status_code = 400 /\ coll2 = coll
    ELSE IF id \in DOMAIN coll
        THEN cat'.pc = "find" /\ Patched(coll, coll2, id, data)
    ELSE coll2 = coll

\* C17: a catalog update (seva, day profile, slot, accommodation) whose fields are
\* all null fails with 400 and leaves the store as it is; an update with some
\* non-null fields overwrites exactly those fields of exactly the addressed
\* document and leaves its other fields and every other document untouched.
PartialUpdateFrame ==
    [][/\ CatalogCall({"update_seva"}) =>
            /\ PartialUpdate(sevas, sevas', cat'.id, cat'.data)
            /\ UNCHANGED <<schedule_slots, accommodations, bookings,
                           accommodation_bookings, devotees, day_profiles>>
       /\ CatalogCall({"update_schedule_slot"}) =>
            /\ PartialUpdate(schedule_slots, schedule_slots', cat'.id, cat'.data)
            /\ UNCHANGED <<sevas, accommodations, bookings,
                           accommodation_bookings, devotees, day_profiles>>
       /\ CatalogCall({"update_day_profile"}) =>
            /\ PartialUpdate(day_profiles, day_profiles', cat'.id, cat'.data)
            /\ UNCHANGED <<sevas, schedule_slots, accommodations, bookings,
                           accommodation_bookings, devotees>>
       /\ CatalogCall({"update_accommodation"}) =>
            /\ PartialUpdate(accommodations, accommodations', cat'.id, cat'.data)
            /\ UNCHANGED <<sevas, schedule_slots, bookings,
                           accommodation_bookings, devotees, day_profiles>>
       /\ (cat.pc = "find" /\ cat' # cat) =>
            UNCHANGED <<sevas, schedule_slots, accommodations, bookings,
                        accommodation_bookings, devotees, day_profiles>>]_vars

\* an update with only a name has renamed the seva and kept its price, as its
\* response shows, and the other seva is as it was seeded
RenamedOnly ==
    /\ cat.pc = "done"
    /\ cat.op = "update_seva"
    /\ cat.resp.status_code = 200
    /\ Supplied(cat.data) = {"name_english"}
    /\ cat.resp.body.name_english = "Renamed"
    /\ cat.resp.body.base_price = 500
    /\ sevas["sevaB"].name_english = "Archana"

\* C18: deleting a seva or a schedule slot whose id does not exist fails with
\* 404 and the store is unchanged; deleting an existing one removes exactly
\* that document, also while bookings or slots refer to it, and leaves the
\* bookings and every other catalog document as they are.
DeleteFrame ==
    [][/\ CatalogCall({"delete_seva"}) =>
            /\ cat'.pc = "done"
            /\ IF cat'.id \in DOMAIN sevas
                   THEN /\ cat'.resp.status_code = 200
                        /\ DOMAIN sevas' = DOMAIN sevas \ {cat'.id}
                        /\ \A k \in DOMAIN sevas' : sevas'[k] = sevas[k]
               ELSE cat'.resp.status_code = 404 /\ sevas' = sevas
            /\ UNCHANGED <<schedule_slots, accommodations, bookings,
                           accommodation_bookings, devotees, day_profiles>>
       /\ CatalogCall({"delete_schedule_slot"}) =>
            /\ cat'.pc = "done"
            /\ IF cat'.id \in DOMAIN schedule_slots
                   THEN /\ cat'.resp.status_code = 200
                        /\ DOMAIN schedule_slots' = DOMAIN schedule_slots \ {cat'.id}
                        /\ \A k \in DOMAIN schedule_slots' :
                                schedule_slots'[k] = schedule_slots[k]
               ELSE cat'.resp.status_code = 404 /\ schedule_slots' = schedule_slots
            /\ UNCHANGED <<sevas, accommodations, bookings,
                           accommodation_bookings, devotees, day_profiles>>]_vars

\* a seva has been deleted while a slot and a booking still refer to it
DeletedWhileReferenced ==
    /\ cat.pc = "done"
    /\ cat.op = "delete_seva"
    /\ cat.resp.status_code = 200
    /\ cat.id \notin DOMAIN sevas
    /\ \E s \in DOMAIN schedule_slots : schedule_slots[s].seva_id = cat.id
    /\ \E i \in DOMAIN bookings : bookings[i].seva_id = cat.id

BookingIdsOf(bks) == {bks[i].id : i \in DOMAIN bks}

\* C19: bookings are created only by the admission and never deleted. Over
\* every step the set of booking ids only grows, by at most the one booking
\* that the insert of an admitted create_booking request adds; no status
\* update, catalog update or delete, availability query or read inserts or
\* removes a booking.
BookingsOnlyGrow ==
    [][/\ BookingIdsOf(bookings) \subseteq BookingIdsOf(bookings')
       /\ Len(bookings') \in {Len(bookings), Len(bookings) + 1}
       /\ Cardinality(BookingIdsOf(bookings')) = Len(bookings')
       /\ Len(bookings') = Len(bookings) + 1 =>
            \E r \in DOMAIN req :
                /\ req[r].pc = "insert"
                /\ Admitted(req'[r])
                /\ BookingIdsOf(bookings') \ BookingIdsOf(bookings)
                        = {req'[r].resp.body}]_vars

\* both bookings are still stored after one was cancelled and both the seva
\* and the slot they refer to were deleted
KeptAfterCancelAndDelete ==
    /\ Len(bookings) = 2
    /\ bookings[1].status = "Cancelled"
    /\ bookings[1].seva_id \notin DOMAIN sevas
    /\ bookings[1].slot_id \notin DOMAIN schedule_slots

\* the fields of a booking that are copies of catalog values
SnapshotFields ==
    {"seva_name_english", "seva_name_telugu", "slot_start_time", "slot_end_time",
     "amount", "note_to_devotee"}

\* C20: the snapshot fields of a booking (seva names, slot start and end time,
\* amount, note) are fixed at admission. The insert copies the values the
\* catalog holds, no later step changes them in the stored booking, whatever
\* is updated or deleted in the catalog, and get_booking returns the stored
\* values, not the current catalog values.
SnapshotsFixed ==
    [][/\ \A i \in DOMAIN bookings : \A f \in SnapshotFields :
            bookings'[i][f] = bookings[i][f]
       /\ \A r \in DOMAIN req :
            (Step(r) /\ req[r].pc = "insert") =>
                LET b == bookings'[Len(bookings')]
                    seva == sevas[b.seva_id]
                    slot == schedule_slots[b.slot_id]
                IN /\ b.seva_name_english = seva.name_english
                   /\ b.seva_name_telugu = seva.name_telugu
                   /\ b.slot_start_time = slot.start_time
                   /\ b.slot_end_time = slot.end_time
                   /\ b.amount = seva.base_price
                   /\ b.note_to_devotee = seva.special_instructions
       /\ (rdr.pc = "idle" /\ rdr'.pc = "done") =>
            \A i \in DOMAIN bookings :
                bookings[i].id = rdr'.booking_id => rdr'.resp = Ok(bookings[i])]_vars

\* a booking read back with the name, price and start time of its admission
\* after the seva was renamed and repriced and the slot was moved
ReadBackOldSnapshot ==
    /\ rdr.pc = "done"
    /\ rdr.resp.status_code = 200
    /\ rdr.resp.body.seva_name_english = "Abhishekam"
    /\ rdr.resp.body.amount = 500
    /\ rdr.resp.body.slot_start_time = "06:00"
    /\ rdr.resp.body.seva_id \in DOMAIN sevas
    /\ sevas[rdr.resp.body.seva_id].name_english = "Renamed"
    /\ sevas[rdr.resp.body.seva_id].base_price = 100
    /\ rdr.resp.body.slot_id \in DOMAIN schedule_slots
    /\ schedule_slots[rdr.resp.body.slot_id].start_time = "08:00"

(* C21: the public seva listing with the default active_only filter never  *)
(* returns a seva whose active_flag is false, while get-by-id resolves every  *)
(* stored seva, whatever its active_flag.                                     *)
ListedAreActive ==
    (lst.pc = "done" /\ lst.op = "list_sevas" /\ lst.active_only)
        => \A j \in DOMAIN lst.resp.body : lst.resp.body[j].active_flag

GetSevaResolves ==
    (lst.pc = "idle" /\ lst'.op = "get_seva" /\ lst'.seva_id \in DOMAIN sevas)
        => lst'.resp = Ok(sevas[lst'.seva_id])

InactiveHiddenButResolvable == []ListedAreActive /\ [][GetSevaResolves]_vars

\* get-by-id has returned a seva that staff switched off, which the default
\* listing would leave out
InactiveSevaResolved ==
    /\ lst.pc = "done" /\ lst.op = "get_seva"
    /\ lst.resp.status_code = 200
    /\ ~lst.resp.body.active_flag
    /\ lst.seva_id \in DOMAIN sevas /\ ~sevas[lst.seva_id].active_flag

(* C22: ticket lookup fails with 400 if and only if neither booking_number   *)
(* nor mobile is supplied; a supplied booking_number returns the booking with *)
(* exactly that number, a supplied mobile returns the bookings of that        *)
(* devotee mobile, most recent first, at most 20.                             *)
MostRecentFirst(body) ==
    \A j, k \in DOMAIN body :
        j < k => body[j].booking_date_time >= body[k].booking_date_time

TicketLookup400Iff ==
    tkt.pc = "done" =>
        /\ tkt.resp.status_code = 400
                <=> (~Truthy(tkt.booking_number) /\ ~Truthy(tkt.mobile))
        /\ (tkt.resp.status_code = 200 /\ ~Truthy(tkt.mobile))
                => /\ Len(tkt.resp.body) = 1
                   /\ tkt.resp.body[1].booking_number = tkt.booking_number.some
        /\ (tkt.resp.status_code = 200 /\ ~Truthy(tkt.booking_number))
                => /\ \A j \in DOMAIN tkt.resp.body :
                        tkt.resp.body[j].devotee_mobile = tkt.mobile.some
                   /\ MostRecentFirst(tkt.resp.body)
                   /\ Len(tkt.resp.body) <= TicketsToList

(* C23: a request with a valid, unexpired token whose role is wrong for the  *)
(* operation (a staff token on create_booking, a devotee token on             *)
(* update_booking_status) is rejected with 403, a missing, expired or invalid *)
(* token with 401; in both cases the operation is not performed.              *)
Unauthenticated(credentials) == credentials = None \/ credentials.kind # "valid"

WrongRole(credentials, roles) ==
    credentials # None /\ credentials.kind = "valid" /\ credentials.role \notin roles

\* the answer the request q got from the identity gate of an operation open to
\* the roles given
Gated(q, roles) ==
    /\ WrongRole(q.credentials, roles)
            => q.pc = "done" /\ q.resp.status_code = 403 /\ bookings' = bookings
    /\ Unauthenticated(q.credentials)
            => q.pc = "done" /\ q.resp.status_code = 401 /\ bookings' = bookings

ForbiddenNotUnauthenticated ==
    [][/\ \A r \in DOMAIN req :
            (req[r].pc = "idle" /\ Step(r)) => Gated(req'[r], {"devotee"})
       /\ (adm.pc = "idle" /\ adm' # adm)
            => Gated(adm', {"EO", "Clerk", "Cashier", "Priest"})]_vars

(* C24: catalog records (sevas, day profiles, schedule slots) are created,   *)
(* updated or deleted only by requests that carry a staff role in {EO, Clerk, *)
(* Cashier, Priest}: every step that changes the catalog is taken by a        *)
(* request that presented such a token.                                       *)
CatalogChanged ==
    \/ sevas' # sevas
    \/ day_profiles' # day_profiles
    \/ schedule_slots' # schedule_slots

StaffRequestStarts ==
    /\ cat.pc = "idle"
    /\ cat' # cat
    /\ cat'.credentials # None
    /\ cat'.credentials.kind = "valid"
    /\ cat'.credentials.role \in {"EO", "Clerk", "Cashier", "Priest"}

CatalogWritesByStaffOnly == [][CatalogChanged => StaffRequestStarts]_vars

(* C25: the amount-in-words function maps 0 to "Zero", 100 to "One Hundred", *)
(* 1500 to "One Thousand Five Hundred", 100000 to "One Lakh" and 10000000 to  *)
(* "One Crore", using Indian thousand/lakh/crore grouping for every           *)
(* non-negative integer amount.                                               *)
\* the number a word stands for, 0 for a word that is no number
WordValue(w) ==
    IF \E i \in DOMAIN ones : ones[i] = w
        THEN CHOOSE i \in DOMAIN ones : ones[i] = w
    ELSE IF w # "" /\ \E i \in DOMAIN tens : tens[i] = w
        THEN 10 * (CHOOSE i \in DOMAIN tens : tens[i] = w)
    ELSE 0

\* The amount a wording stands for when read with Indian grouping: crores
\* first, then at most 99 lakh, at most 99 thousand and the hundreds; -1 when
\* the wording does not follow the grouping. total is the amount read so far,
\* group the count being read, last the rank of the last unit read.
RECURSIVE ReadIndian(_, _, _, _)
ReadIndian(words, total, group, last) ==
    IF words = <<>> THEN total + group
    ELSE LET w == Head(words) IN
         IF w = "and" THEN ReadIndian(Tail(words), total, group, last)
         ELSE IF w = "Hundred"
             THEN IF group \in 1..9 THEN ReadIndian(Tail(words), total, group * 100, last)
                  ELSE -1
         ELSE IF w = "Crore"
             THEN IF last = 4 /\ group >= 1
                      THEN ReadIndian(Tail(words), (total + group) * 10000000, 0, 3)
                  ELSE -1
         ELSE IF w = "Lakh"
             THEN IF last > 2 /\ group \in 1..99
                      THEN ReadIndian(Tail(words), total + group * 100000, 0, 2)
                  ELSE -1
         ELSE IF w = "Thousand"
             THEN IF last > 1 /\ group \in 1..99
                      THEN ReadIndian(Tail(words), total + group * 1000, 0, 1)
                  ELSE -1
         ELSE IF WordValue(w) > 0
             THEN ReadIndian(Tail(words), total, group + WordValue(w), last)
         ELSE -1

\* the receipt the request got, when it got one
Receipted == rcp.pc = "done" /\ rcp.op = "get_donation_receipt" /\ rcp.resp.status_code = 200

\* the wording reads back as the amount
IndianGrouping(amount, words) == ReadIndian(words, 0, 0, 4) = amount

AmountInWordsBare ==
    Receipted =>
        LET amount == rcp.resp.body.amount
            words == rcp.resp.body.amount_words
        IN
        /\ amount = 0 => words = <<"Zero">>
        /\ amount = 100 => words = <<"One", "Hundred">>
        /\ amount = 1500 => words = <<"One", "Thousand", "Five", "Hundred">>
        /\ amount = 100000 => words = <<"One", "Lakh">>
        /\ amount = 10000000 => words = <<"One", "Crore">>
        /\ amount > 0 => IndianGrouping(amount, words)

\* C25 as amended: every positive amount is worded with Indian grouping and
\* followed by "Rupees Only"; 0 is "Zero" alone.
AmountInWordsRupeesOnly ==
    Receipted =>
        LET amount == rcp.resp.body.amount
            words == rcp.resp.body.amount_words
            said == SubSeq(words, 1, Len(words) - 2)
        IN
        /\ amount = 0 => words = <<"Zero">>
        /\ amount = 100 => words = <<"One", "Hundred", "Rupees", "Only">>
        /\ amount = 1500
                => words = <<"One", "Thousand", "Five", "Hundred", "Rupees", "Only">>
        /\ amount = 100000 => words = <<"One", "Lakh", "Rupees", "Only">>
        /\ amount = 10000000 => words = <<"One", "Crore", "Rupees", "Only">>
        /\ amount > 0
                => /\ Len(words) > 2
                   /\ SubSeq(words, Len(words) - 1, Len(words)) = <<"Rupees", "Only">>
                   /\ IndianGrouping(amount, said)

\* the receipt of a donation of twelve lakh thirty-four thousand five hundred
\* and sixty-seven
LakhReceipt ==
    /\ Receipted
    /\ rcp.resp.body.amount = 1234567
    /\ rcp.resp.body.amount_words
            = <<"Twelve", "Lakh", "Thirty", "Four", "Thousand", "Five", "Hundred", "and",
                "Sixty", "Seven", "Rupees", "Only">>

(* C26: under fair scheduling every create_booking request eventually       *)
(* terminates with exactly one outcome (admitted, NotFound, InvalidRequest or *)
(* capacity exhausted), however many admissions, status updates and           *)
(* availability queries run concurrently; no admission waits on another       *)
(* request.                                                                   *)
Outcome(q) ==
    /\ q.pc = "done"
    /\ \/ q.resp.status_code = 200
       \/ q.resp \in {SevaNotFound, SlotNotFound, NoSlotsAvailable}
       \/ q.resp.status_code = 400 /\ q.resp.detail = "Number of persons must be 1-"

AdmissionsTerminate ==
    /\ \A r \in Reqs : []<>(req[r].pc \in {"idle", "done"})
    /\ [](\A r \in Reqs : req[r].pc = "done" => Outcome(req[r]))

\* an admission was refused for capacity and another admitted while a status
\* update and an availability query were still running
RefusedAmongOthers ==
    \E r1, r2 \in Reqs :
        /\ r1 # r2
        /\ Rejected(req[r1], NoSlotsAvailable)
        /\ Admitted(req[r2])
        /\ adm.pc = "find"
        /\ avl.pc = "count"

\* Admissions naming every pairing of a seva with a slot, one handler at a
\* time, with staff cancelling.
MismatchInputs ==
    [data |-> BookingCreate(SevaIds, SlotIds, {"d1"}, PersonInputs),
     credentials |-> DevoteeTokens,
     statuses |-> {"Cancelled"},
     staff |-> StaffTokens]

InitMismatch == InitAdmit

NextMismatch == Serial(MismatchInputs)

SpecMismatch == InitMismatch /\ [][NextMismatch]_vars

\* the request names a stored seva and a stored slot of another seva
Mismatched(q) ==
    /\ q.data # None
    /\ q.data.seva_id \in DOMAIN sevas
    /\ q.data.slot_id \in DOMAIN schedule_slots
    /\ schedule_slots[q.data.slot_id].seva_id # q.data.seva_id

(* C27: create_booking does not verify that the slot belongs to the requested *)
(* seva. A request naming a stored seva A and a stored slot of another seva B *)
(* passes the slot lookup exactly when its person count is within 1..seva A's *)
(* max_persons_per_ticket, passes the capacity check whenever the slot has a  *)
(* free place, and its insert stores a booking with seva A's id, names and    *)
(* price and slot B's id and times.                                           *)
MismatchedSlotAdmitted ==
    [][\A r \in DOMAIN req :
        (Step(r) /\ Mismatched(req[r])) =>
            LET data == req[r].data
                seva == sevas[data.seva_id]
                slot == schedule_slots[data.slot_id]
            IN
            /\ req[r].pc = "find_slot" =>
                   (req'[r].pc = "count"
                        <=> data.number_of_persons \in 1..seva.max_persons_per_ticket)
            /\ (req[r].pc = "count" /\ Occupancy(data.slot_id, data.for_date) < Quota(data.slot_id))
                   => req'[r].pc = "find_devotee"
            /\ req[r].pc = "insert" =>
                   /\ Admitted(req'[r])
                   /\ Len(bookings') = Len(bookings) + 1
                   /\ LET b == bookings'[Len(bookings')] IN
                       /\ b.id = req'[r].resp.body
                       /\ b.seva_id = seva.id
                       /\ b.seva_name_english = seva.name_english
                       /\ b.seva_name_telugu = seva.name_telugu
                       /\ b.amount = seva.base_price
                       /\ b.slot_id = slot.id
                       /\ b.slot_start_time = slot.start_time
                       /\ b.slot_end_time = slot.end_time
                       /\ b.number_of_persons = data.number_of_persons]_vars

\* a stored booking of seva A in a slot of seva B, for more persons than seva
\* B allows on one ticket
MismatchedBookingStored ==
    \E i \in DOMAIN bookings :
        LET b == bookings[i] IN
        /\ b.seva_id = "sevaA"
        /\ b.slot_id = "slot2"
        /\ schedule_slots[b.slot_id].seva_id = "sevaB"
        /\ b.seva_name_english = "Abhishekam"
        /\ b.amount = 500
        /\ b.slot_start_time = "07:00"
        /\ b.number_of_persons > sevas["sevaB"].max_persons_per_ticket
        /\ \E r \in DOMAIN req : Admitted(req[r]) /\ req[r].resp.body = b.id

\* Concurrent registrations, of a mobile number already registered and of new
\* ones.
RegisterInputs ==
    [registrations |-> DevoteeRegister({"Devi"}, {"m1", "m3", "m4"})]

InitRegister ==
    /\ Seeded(Reqs)
    /\ schedule_slots = SeedSlots([s \in SlotIds |-> 1])

NextRegister ==
    \/ \E g \in Reqs : devotee_register_begin(g, RegisterInputs)
    \/ \E g \in Reqs : devotee_register(g)
    \/ \E g \in Reqs : devotee_register_return(g)

SpecRegister == InitRegister /\ [][NextRegister]_vars

(* C28: a devotee registration with a mobile number that is already         *)
(* registered is rejected and creates no record, and in every reachable state *)
(* no two devotee records share a mobile number, also when two registrations  *)
(* for the same mobile number run concurrently.                               *)
MobilesUnique ==
    \A d1, d2 \in DOMAIN devotees :
        devotees[d1].mobile = devotees[d2].mobile => d1 = d2

\* the lookup of a registered mobile number ends the request with 400 and
\* leaves the devotees as they are
DuplicateMobileRejected ==
    \A g \in DOMAIN reg :
        (/\ reg[g].pc = "find"
         /\ reg'[g] # reg[g]
         /\ \E d \in DOMAIN devotees : devotees[d].mobile = reg[g].data.mobile)
            => /\ reg'[g].pc = "done"
               /\ reg'[g].resp = MobileAlreadyRegistered
               /\ devotees' = devotees

NoTwoDevoteesShareMobile == []MobilesUnique /\ [][DuplicateMobileRejected]_vars

\* the part of C28 that holds: the rejection of a registered mobile number
RegisteredMobileRefused == [][DuplicateMobileRejected]_vars

\* Concurrent admissions whose capacity check and insert form one step of the
\* schedule, with staff cancelling and no change to any slot.
AtomicInputs ==
    [data |-> BookingCreate({"sevaA"}, {"slot1"}, {"d1"}, {1}),
     credentials |-> DevoteeTokens,
     statuses |-> {"Cancelled"},
     staff |-> StaffTokens]

\* request q has counted the bookings of its pair and not yet inserted
Committing(q) == q.pc \in {"find_devotee", "insert"}

\* no request other than r is between its count and its insert
Exclusive(r) == \A o \in DOMAIN req \ {r} : ~Committing(req[o])

InitAtomic ==
    /\ Seeded(Reqs)
    /\ \E q \in 1..MaxQuota : schedule_slots = SeedSlots([s \in SlotIds |-> q])

NextAtomic ==
    \/ \E r \in Reqs : Exclusive(r) /\ create_booking_begin(r, AtomicInputs)
    \/ \E r \in Reqs : Exclusive(r) /\ create_booking(r)
    \/ \E r \in Reqs : Exclusive(r) /\ create_booking_return(r)
    \/ (\A r \in Reqs : ~Committing(req[r])) /\ update_booking_status_update(AtomicInputs)
    \/ (\A r \in Reqs : ~Committing(req[r])) /\ update_booking_status_find
    \/ (\A r \in Reqs : ~Committing(req[r])) /\ update_booking_status_return

SpecAtomic == InitAtomic /\ [][NextAtomic]_vars

(* C29: when no other request runs between the occupancy count and the      *)
(* insert of any create_booking request, no slot's online_quota changes and   *)
(* the only status updates are changes to Cancelled, every (slot, for_date)   *)
(* holds at most online_quota non-Cancelled bookings in every reachable       *)
(* state, and a request that has passed its count still finds a free place.   *)
AtomicAdmissionsWithinQuota ==
    /\ \A slot_id \in DOMAIN schedule_slots, for_date \in Dates :
        NonCancelled(bookings, slot_id, for_date) <= schedule_slots[slot_id].online_quota
    /\ \A r \in DOMAIN req :
        Committing(req[r]) =>
            NonCancelled(bookings, req[r].data.slot_id, req[r].data.for_date)
                < schedule_slots[req[r].data.slot_id].online_quota

\* a full pair that was refilled after a cancellation refuses a request while
\* another request is in flight
RefusedAtQuotaAfterCancel ==
    \E r1, r2 \in DOMAIN req :
        /\ Rejected(req[r1], NoSlotsAvailable)
        /\ req[r2].pc \notin {"idle", "done"}
        /\ LET data == req[r1].data IN
            /\ Occupancy(data.slot_id, data.for_date) = Quota(data.slot_id)
            /\ \E i \in DOMAIN bookings :
                /\ bookings[i].slot_id = data.slot_id
                /\ bookings[i].for_date = data.for_date
                /\ bookings[i].status = "Cancelled"

\* staff start a status update that passes the identity gate and the enum
\* check and brings the stored Cancelled booking i back to a live status
Uncancels(i) ==
    /\ adm.pc = "idle"
    /\ adm'.pc # "idle"
    /\ get_current_admin(adm'.credentials).status_code = 200
    /\ adm'.status \in valid_statuses \ {"Cancelled"}
    /\ bookings[i].id = adm'.booking_id
    /\ bookings[i].status = "Cancelled"

(* C30: update_booking_status applies a valid status without consulting slot *)
(* occupancy. With one handler at a time, a staff update of a Cancelled        *)
(* booking to Confirmed, Pending, Completed or NoShow whose (slot, for_date)   *)
(* already holds online_quota or more non-Cancelled bookings is applied: the   *)
(* booking takes the new status, the pair then holds one more non-Cancelled    *)
(* booking than before, which is more than online_quota, and the handler       *)
(* answers 200 with the new status.                                            *)
UncancelOverbooks ==
    [][/\ \A i \in DOMAIN bookings :
            LET b == bookings[i] IN
            (/\ Uncancels(i)
             /\ Occupancy(b.slot_id, b.for_date) >= Quota(b.slot_id))
                => /\ adm'.pc = "find"
                   /\ bookings' = [bookings EXCEPT ![i].status = adm'.status]
                   /\ NonCancelled(bookings', b.slot_id, b.for_date)
                        = Occupancy(b.slot_id, b.for_date) + 1
                   /\ NonCancelled(bookings', b.slot_id, b.for_date)
                        > schedule_slots'[b.slot_id].online_quota
       /\ (adm.pc = "find" /\ adm'.pc = "done") =>
            \A i \in DOMAIN bookings :
                bookings[i].id = adm.booking_id
                    => adm'.resp = Ok([id |-> bookings[i].id, status |-> adm.status])]_vars

\* staff have brought a Cancelled booking back and its pair now holds more
\* non-Cancelled bookings than the quota, with no other handler in flight
OverbookedByUncancel ==
    /\ adm.pc = "done"
    /\ adm.resp.status_code = 200
    /\ adm.status \in valid_statuses \ {"Cancelled"}
    /\ \A r \in DOMAIN req : req[r].pc = "idle"
    /\ \E i \in DOMAIN bookings :
        /\ bookings[i].id = adm.booking_id
        /\ adm.resp.body = [id |-> bookings[i].id, status |-> adm.status]
        /\ Occupancy(bookings[i].slot_id, bookings[i].for_date)
                = Quota(bookings[i].slot_id) + 1

\* An availability query and then admissions decided on the store the query
\* read: the answer is held while the admission runs, and staff cancel,
\* re-confirm and delete sevas only between queries.
AgreeInputs ==
    [data |-> BookingCreate(SevaIds, SlotIds, {"d1"}, {0, 1}),
     credentials |-> DevoteeTokens,
     statuses |-> {"Cancelled"},
     staff |-> StaffTokens,
     seva_ids |-> SevaIds,
     dates |-> {"d1"}]

\* the query has answered and the store is still the one it read
Held ==
    /\ avl.pc = "done"
    /\ adm.pc = "idle"
    /\ cat.pc = "idle"
    /\ avl.arrived = Len(bookings)

InitAgree ==
    /\ Seeded({1})
    /\ schedule_slots \in {c \in DatedSlots : c["slot1"].date = None
                                              /\ c["slot1"].online_quota = 1}

NextAgree ==
    \/ Quiet /\ get_available_slots_find(AgreeInputs)
    \/ get_available_slots_count
    \/ req[1].pc = "idle" /\ get_available_slots_return
    \/ Held /\ create_booking_begin(1, AgreeInputs)
    \/ create_booking(1)
    \/ create_booking_return(1)
    \/ Quiet /\ update_booking_status_update(AgreeInputs)
    \/ update_booking_status_find
    \/ update_booking_status_return
    \/ Quiet /\ delete_seva(AgreeInputs)
    \/ catalog_return

SpecAgree == InitAgree /\ [][NextAgree]_vars

\* request q names the seva and date of the held answer and a stored slot of
\* that seva
Queried(q) ==
    /\ q.pc = "done"
    /\ avl.pc = "done"
    /\ avl.resp.status_code = 200
    /\ q.data.seva_id = avl.seva_id
    /\ q.data.for_date = avl.date
    /\ q.data.slot_id \in DOMAIN schedule_slots
    /\ schedule_slots[q.data.slot_id].seva_id = q.data.seva_id

\* the person count is one the seva allows; one person when the seva is no
\* longer stored and sets no limit
ValidPersons(q) ==
    IF q.data.seva_id \in DOMAIN sevas
        THEN q.data.number_of_persons
                \in 1..sevas[q.data.seva_id].max_persons_per_ticket
    ELSE q.data.number_of_persons = 1

\* the same for a seva that is still stored
AsQueried(q) == Queried(q) /\ q.data.seva_id \in DOMAIN sevas /\ ValidPersons(q)

ListedIn(body, slot_id) == \E j \in DOMAIN body : body[j].id = slot_id

\* the admission agrees with the held answer
Agrees(q) ==
    LET slot == schedule_slots[q.data.slot_id] IN
    IF ListedIn(avl.resp.body, q.data.slot_id)
        THEN Admitted(q)
    ELSE (slot.date = None \/ slot.date = Some(q.data.for_date))
            => Rejected(q, NoSlotsAvailable)

AdmittedWhereListed ==
    \E r \in DOMAIN req :
        /\ AsQueried(req[r])
        /\ Admitted(req[r])
        /\ \E j \in DOMAIN avl.resp.body :
            /\ avl.resp.body[j].id = req[r].data.slot_id
            /\ avl.resp.body[j].remaining_slots = 1

\* request q names a stored slot of one date and asks for another date
OffDate(q) ==
    /\ q.data # None
    /\ q.data.slot_id \in DOMAIN schedule_slots
    /\ \E d \in Dates \ {q.data.for_date} :
        schedule_slots[q.data.slot_id].date = Some(d)

(* C32: create_booking does not compare for_date with the slot's own date.   *)
(* A request for a date-specific slot with a for_date other than the slot's    *)
(* date passes the capacity check exactly when the slot holds fewer than       *)
(* online_quota non-Cancelled bookings under the requested for_date, and its   *)
(* insert stores a booking under that for_date, leaving the occupancy of the   *)
(* slot's own date as it was; get_available_slots never lists a dated slot     *)
(* for another date.                                                           *)
ForDateNotCompared ==
    [][/\ \A r \in DOMAIN req :
            (Step(r) /\ OffDate(req[r])) =>
                LET data == req[r].data
                    own == schedule_slots[data.slot_id].date.some
                IN
                /\ req[r].pc = "count" =>
                       IF Occupancy(data.slot_id, data.for_date) < Quota(data.slot_id)
                           THEN req'[r].pc = "find_devotee"
                       ELSE Rejected(req'[r], NoSlotsAvailable)
                /\ req[r].pc = "insert" =>
                       /\ Admitted(req'[r])
                       /\ Len(bookings') = Len(bookings) + 1
                       /\ bookings'[Len(bookings')].slot_id = data.slot_id
                       /\ bookings'[Len(bookings')].for_date = data.for_date
                       /\ NonCancelled(bookings', data.slot_id, data.for_date)
                            = Occupancy(data.slot_id, data.for_date) + 1
                       /\ NonCancelled(bookings', data.slot_id, own)
                            = Occupancy(data.slot_id, own)
       /\ (avl.pc # "done" /\ avl'.pc = "done" /\ avl'.resp.status_code = 200) =>
            \A j \in DOMAIN avl'.resp.body :
                \A d \in Dates \ {avl'.date} : avl'.resp.body[j].date # Some(d)]_vars

\* slot2 is a slot of date d2 that holds a live booking for d1, is full for
\* d1, and is listed for d2 with nothing booked
BookedOffDate ==
    /\ schedule_slots["slot2"].date = Some("d2")
    /\ \E i \in DOMAIN bookings :
        /\ bookings[i].slot_id = "slot2"
        /\ bookings[i].for_date = "d1"
        /\ bookings[i].status = "Confirmed"
    /\ Occupancy("slot2", "d1") = Quota("slot2")
    /\ avl.pc = "done"
    /\ avl.date = "d2"
    /\ avl.resp.status_code = 200
    /\ \E j \in DOMAIN avl.resp.body :
        /\ avl.resp.body[j].id = "slot2"
        /\ avl.resp.body[j].booked_count = 0
        /\ avl.resp.body[j].remaining_slots = Quota("slot2")

\* every stored booking has one of the five statuses and is paid
StatusAndPaymentValid ==
    \A i \in DOMAIN bookings :
        /\ bookings[i].status \in {"Pending", "Confirmed", "Completed", "Cancelled", "NoShow"}
        /\ bookings[i].payment_status = "Paid"

\* a new booking enters as Confirmed and Paid, a stored booking changes its
\* status only through a staff update to one of the five values, and never
\* its payment_status
StatusWrittenByStaffOnly ==
    /\ Len(bookings') >= Len(bookings)
    /\ \A i \in DOMAIN bookings' :
        IF i \in DOMAIN bookings
            THEN /\ bookings'[i].payment_status = bookings[i].payment_status
                 /\ bookings'[i].status # bookings[i].status
                        => /\ adm.pc = "idle"
                           /\ adm'.pc = "find"
                           /\ adm'.booking_id = bookings[i].id
                           /\ bookings'[i].status = adm'.status
                           /\ adm'.status \in valid_statuses
        ELSE /\ bookings'[i].status = "Confirmed"
             /\ bookings'[i].payment_status = "Paid"

(* C33: in every reachable state every stored seva booking has a status in   *)
(* {Pending, Confirmed, Completed, Cancelled, NoShow} and payment_status =     *)
(* Paid: admission writes Confirmed/Paid, the staff status update only ever    *)
(* writes one of the five values, and no operation changes payment_status.     *)
BookingStatusInEnum == []StatusAndPaymentValid /\ [][StatusWrittenByStaffOnly]_vars

\* staff moved a booking to NoShow and were then refused the status Refunded
\* for it
RefundedRefused ==
    /\ adm.pc = "done"
    /\ adm.status = "Refunded"
    /\ adm.resp = InvalidStatus
    /\ \E i \in DOMAIN bookings :
        /\ bookings[i].id = adm.booking_id
        /\ bookings[i].status = "NoShow"
        /\ bookings[i].payment_status = "Paid"

\* no stored booking has the id
NoBookingWithId(booking_id) == \A i \in DOMAIN bookings : bookings[i].id # booking_id

(* C34: a valid staff status update changes only the status field of the one *)
(* booking whose id is addressed: its other fields and all other bookings are  *)
(* unchanged, and so is the rest of the store; when no booking has the id the  *)
(* store is left unchanged, no record is created, and the request answers 200  *)
(* with an empty result rather than a NotFound error.                          *)
StatusUpdateFrame ==
    [][/\ (adm.pc = "idle" /\ adm'.pc = "find") =>
            /\ DOMAIN bookings' = DOMAIN bookings
            /\ \A i \in DOMAIN bookings :
                bookings'[i] = IF bookings[i].id = adm'.booking_id
                                   THEN [bookings[i] EXCEPT !.status = adm'.status]
                               ELSE bookings[i]
            /\ NoBookingWithId(adm'.booking_id) => bookings' = bookings
            /\ UNCHANGED <<sevas, schedule_slots, devotees, day_profiles, lodging, giving>>
       /\ (adm.pc = "find" /\ adm'.pc = "done") =>
            /\ UNCHANGED <<sevas, schedule_slots, bookings, devotees, day_profiles,
                           lodging, giving>>
            /\ adm'.resp.status_code = 200
            /\ NoBookingWithId(adm.booking_id) => adm'.resp = Ok(None)
            /\ \A i \in DOMAIN bookings :
                bookings[i].id = adm.booking_id
                    => /\ adm'.resp.body.id = bookings[i].id
                       /\ adm'.resp.body.status = adm.status]_vars

\* staff cancelled a booking id that no stored booking carries, next to a
\* stored booking that kept its status, and were answered 200 with null
UpdatedMissingBooking ==
    /\ adm.pc = "done"
    /\ adm.status = "Cancelled"
    /\ get_current_admin(adm.credentials).status_code = 200
    /\ NoBookingWithId(adm.booking_id)
    /\ adm.resp = Ok(None)
    /\ Len(bookings) = 1
    /\ bookings[1].status = "Confirmed"

====
